---- MODULE Spec2Model ----
(***************************************************************************)
(* Model of the edge-device control agent (loopx111/mpvPlayer).            *)
(*                                                                         *)
(* Components, each with its own variables and its own specification:      *)
(*   Playback Supervisor   src/src/player/mpv_controller.py   SpecPlayer   *)
(*   Command Channel       src/src/comm/mqtt_client.py        SpecMqtt     *)
(*   Playlist sync         src/src/comm/mqtt_service.py       SpecSync     *)
(*   Heartbeat             src/src/comm/mqtt_service.py       SpecHeartbeat*)
(*   File distribution     src/src/comm/mqtt_service.py       SpecFileDist *)
(*   Download Manager      src/src/file_dist/manager.py       SpecDownload *)
(*                         src/src/file_dist/downloader.py                 *)
(*   Health Monitor        src/src/utils/health_check.py      SpecHealth   *)
(*   Transfers by path     src/src/file_dist/downloader.py    SpecPaths    *)
(*   Service restarts      src/src/app.py                     SpecRestart  *)
(*   Player health probe   src/src/app.py                     SpecWatch    *)
(*   Command topics        src/src/app.py                     SpecTopics   *)
(***************************************************************************)
EXTENDS Naturals, Integers, Sequences, FiniteSets, Bags, TLC

(***************************************************************************)
(* Bounds of the model.                                                    *)
(***************************************************************************)
\* number of control operations callers submit to the Playback Supervisor
MaxSubmit == 2
\* number of child player processes that exist (alive or still referenced)
\* at the same time; a launch waits for a free slot
MaxProcs == 2
\* number of wait_for_termination threads that exist at the same time; a stop
\* of a running child waits until an earlier one has ended
MaxTerm == 2
\* number of messages publishers hand to the Command Channel
MaxMsgs == 2
\* number of Download Tasks handed to the Download Manager
MaxTasks == 2
\* the configured download.maxConcurrent (AppConfig keeps it within 1 .. 10)
MaxConcurrent == 1
\* number of playlist-distribution messages the dispatcher receives
MaxSyncs == 2
\* the largest failure count a health record is followed to
MaxCount == 4
\* length of the device paths build_command_topics is applied to
MaxPathLen == 5
MaxIn == 2
\* number of file-distribution messages handled
MaxDist == 1
\* number of entries in the file list of a file-distribution message
MaxFiles == 2
\* number of transfers started by file-distribution messages
MaxFetches == 2
\* number of times the connection-recovery hook restarts the messaging service
MaxRestarts == 2

(***************************************************************************)
(* Program constants.                                                      *)
(***************************************************************************)
\* MpvController.__init__(..., volume: int = 70, ...)
DefaultVolume == 70
\* MqttClient.__init__: self._max_reconnect_attempts = 5
MaxReconnectAttempts == 5
\* MqttClient.__init__: self._reconnect_delay_base = 1
ReconnectDelayBase == 1
\* DownloadConfig.maxConcurrent
DefaultMaxConcurrent == 3
\* MqttClient._schedule_reconnect: delay = min(delay, 60)
MaxReconnectDelay == 60

\* ------------------------------------------------------------------------
\* Playback Supervisor: MpvController
\* ------------------------------------------------------------------------
VARIABLES
    queue,              \* self.queue: the media queue, a sequence of files
    loop,               \* self.loop
    volume,             \* self.volume
    current_process,    \* self.current_process: a pid, or None
    current_file_index, \* self.current_file_index (0-based)
    command_queue,      \* self._command_queue
    running,            \* self._running
    procs,              \* the child player processes, by pid
    wpc,                \* position of the command worker thread
    wfile,              \* the file the worker is about to launch
    mpc,                \* position of the monitor thread
    term,               \* the wait_for_termination threads
    plthreads,          \* the _set_playlist_internal threads
    videoExists,        \* whether the playback directory exists
    videoFiles,         \* the .mp4 files under the playback directory
    cpc,                \* position of the caller executing cleanup()
    nsub,               \* number of control operations submitted so far
    lastTicket          \* submission number of the command the worker executed last

playerVars == <<queue, loop, volume, current_process, current_file_index,
                command_queue, running, procs, wpc, wfile, mpc, term,
                plthreads, videoExists, videoFiles, cpc, nsub, lastTicket>>

\* ------------------------------------------------------------------------
\* Command Channel: MqttClient
\* ------------------------------------------------------------------------
VARIABLES
    connected,          \* self.connected
    reconnect_attempts, \* self._reconnect_attempts
    message_queue,      \* self._message_queue: messages held while disconnected
    mqtt_running,       \* self._running
    netpc,              \* position of the network thread (self._network_thread)
    link,               \* the connection to the broker, as the library sees it
    reconnect_thread,   \* self._reconnect_thread: the delay the latest
                        \* delayed_reconnect thread sleeps for, 0 when it has run
    pubs,               \* the publish() calls in progress
    npub,               \* number of publish() calls made so far
    sent,               \* the messages handed to self.client.publish, in order
    buffered,           \* the messages put on self._message_queue, in order
    atConnect,          \* how many had been buffered when the last connect succeeded
    schedDelays,        \* the delays scheduled since the last successful connect
    gaveUp              \* _schedule_reconnect has logged that it stops reconnecting

mqttVars == <<connected, reconnect_attempts, message_queue, mqtt_running,
              netpc, link, reconnect_thread, pubs, npub, sent, buffered, atConnect,
              schedDelays, gaveUp>>

\* MqttService's heartbeat
VARIABLES
    heartbeat_loops,    \* the heartbeat_loop threads that are alive
    heartbeats,         \* the numbers of the messages that are heartbeats
    service_running     \* MqttService._running

hbVars == <<heartbeat_loops, heartbeats, service_running>>

\* the inbound side of MqttClient
VARIABLES
    callbacks,          \* self.callbacks: the topics that have a callback
    subscriptions,      \* the topics the broker holds for this session
    subpc,              \* the topic of a subscribe() call between its two halves
    resubscribed,       \* the topics the last _on_connect subscribed again
    nmsg,               \* inbound messages received so far
    callback_threads    \* message number -> state of its handle_callbacks thread

inVars == <<callbacks, subscriptions, subpc, resubscribed, nmsg, callback_threads>>

\* ------------------------------------------------------------------------
\* File distribution: MqttService._handle_file_distribution
\* ------------------------------------------------------------------------
VARIABLES
    ndist,              \* file-distribution messages handled so far
    file_msg,           \* the file list of the last message handled
    enqueue_calls,      \* the entries whose task was handed to
                        \* _execute_download_task, which enqueues it
    download_pubs       \* the statuses given to publish_download

fdVars == <<ndist, file_msg, enqueue_calls, download_pubs>>

\* ------------------------------------------------------------------------
\* Download Manager: DownloadManager, Downloader
\* ------------------------------------------------------------------------
VARIABLES
    tasks,              \* DownloadManager.tasks: task id -> DownloadTask
    semaphore,          \* Downloader.semaphore: the free download slots
    tmpFiles,           \* task id -> content of the task's "<dest>.part" file
    destFiles           \* task id -> content of the file at the task's dest

dlVars == <<tasks, semaphore, tmpFiles, destFiles>>

\* ------------------------------------------------------------------------
\* Playlist sync: MqttService
\* ------------------------------------------------------------------------
VARIABLES
    player_instance,    \* MqttService.player_instance is set
    syncs,              \* sync id -> the _process_playlist_distribution thread
    downloadFiles       \* the media files in the download directory

syncVars == <<player_instance, syncs, downloadFiles>>

\* ------------------------------------------------------------------------
\* Health Monitor: HealthCheck
\* ------------------------------------------------------------------------
VARIABLES
    checks,             \* HealthCheck.checks: name -> failure_count, healthy
    hpc,                \* the component health_check_loop polls next
    streak,             \* name -> failed probes in a row, counted up to the
                        \* component's threshold and then from 1 again
    invoked             \* name -> the latest poll called the recovery hook

hcVars == <<checks, hpc, streak, invoked>>

\* ------------------------------------------------------------------------
\* Command topics: build_command_topics
\* ------------------------------------------------------------------------
VARIABLES
    device_path,        \* the device_path argument, a string of characters
    client_id,          \* the client_id argument
    topics              \* the list build_command_topics returned (<<>>: not
                        \* called yet)

topicVars == <<device_path, client_id, topics>>

\* ------------------------------------------------------------------------
\* Messaging service restarts: MqttService.start, recover_mqtt
\* ------------------------------------------------------------------------
VARIABLES
    handlers,           \* topic -> how many times _handle_command stands in
                        \* self.callbacks[topic]
    dispatched          \* per inbound command message, how many times its
                        \* handle_callbacks thread calls _handle_command

rsVars == <<handlers, dispatched>>

\* ------------------------------------------------------------------------
\* Transfers by destination path: Downloader.fetch on the download directory
\* ------------------------------------------------------------------------
VARIABLES
    fetches,            \* transfer -> its position in fetch, its dest and
                        \* where the file it has open now is
    partFiles,          \* name -> the file at <name>.part: whether it exists
                        \* and whose bytes it holds
    storedFiles         \* name -> the file at the destination path

pathVars == <<fetches, partFiles, storedFiles>>

vars == <<playerVars, mqttVars, hbVars, inVars, fdVars, dlVars, syncVars,
          hcVars, topicVars, rsVars, pathVars>>

\* what the steps of one component leave alone
notPlayer == <<mqttVars, hbVars, inVars, fdVars, dlVars, syncVars, hcVars,
                topicVars,
    rsVars, pathVars>>
notChannel == <<playerVars, hbVars, fdVars, dlVars, syncVars, hcVars, topicVars,
    rsVars, pathVars>>
notHeartbeat == <<playerVars, inVars, fdVars, dlVars, syncVars, hcVars,
                   topicVars,
    rsVars, pathVars>>
notMqtt == <<notChannel, inVars>>
notInbound == <<notChannel, mqttVars>>
notDownload == <<playerVars, mqttVars, hbVars, inVars, fdVars, syncVars, hcVars,
                  topicVars,
    rsVars, pathVars>>
notSync == <<mqttVars, hbVars, inVars, fdVars, dlVars, hcVars, topicVars,
    rsVars, pathVars>>
notFileDist == <<playerVars, mqttVars, hbVars, inVars, dlVars, syncVars, hcVars,
                  topicVars,
    rsVars, pathVars>>
notHealth == <<playerVars, mqttVars, hbVars, inVars, fdVars, dlVars, syncVars,
                topicVars,
    rsVars, pathVars>>
notTopics == <<playerVars, mqttVars, hbVars, inVars, fdVars, dlVars, syncVars,
                hcVars,
    rsVars, pathVars>>
notRestart == <<playerVars, mqttVars, hbVars, fdVars, dlVars, syncVars,
                 topicVars, pathVars>>
notPaths == <<playerVars, mqttVars, hbVars, inVars, fdVars, dlVars, syncVars,
               hcVars, topicVars, rsVars>>

\* the player's state apart from the playback directory
playerNotDir == <<queue, loop, volume, current_process, current_file_index,
                  command_queue, running, procs, wpc, wfile, mpc, term,
                  plthreads, cpc, nsub, lastTicket>>

\* Python's None for a process handle, and the pids of child processes
None == 0
PIDs == 1 .. MaxProcs

\* media files; FileOrder is the order in which paths sort
FileOrder == <<"a", "b", "c">>
Files == {FileOrder[i] : i \in 1 .. Len(FileOrder)}
NoFile == ""

\* the paths set_playlist_dir is called with: the playback directory and a
\* path at which there is no directory
VideoDir == "videos"
Dirs == {VideoDir, "nowhere"}

\* volumes callers ask for (one of them out of range)
VolumeInputs == {50, 120}

Free == [file |-> NoFile, vol |-> 0, st |-> "free"]

\* mp4_files.sort(): the files of a directory in path order
SortedFiles(S) == SelectSeq(FileOrder, LAMBDA f : f \in S)

\* list.index(file), 0-based; -1 stands for ValueError
IndexOf(q, f) ==
    IF \E i \in 1 .. Len(q) : q[i] = f
    THEN (CHOOSE i \in 1 .. Len(q) : q[i] = f /\ \A j \in 1 .. i - 1 : q[j] # f) - 1
    ELSE -1

\* max(0, min(vol, 100))
ClampVolume(v) == IF v < 0 THEN 0 ELSE IF v > 100 THEN 100 ELSE v

Alive(ps) == {p \in PIDs : ps[p].st \in {"running", "terminating"}}

\* A child that has exited and that no handle refers to any more is forgotten
\* (its slot in the process table is reused).
Reap(ps, cp, tt) ==
    [p \in PIDs |->
        IF ps[p].st = "exited" /\ p # cp
           /\ ~ \E t \in BagToSet(tt) : t.pc = "wait" /\ t.h = p
        THEN Free ELSE ps[p]]

\* Popen.terminate(): SIGTERM to a child that has not exited yet
Terminate(ps, p) ==
    IF ps[p].st = "running" THEN [ps EXCEPT ![p].st = "terminating"] ELSE ps

\* a bag of threads with one more, or one fewer, thread in state t
Spawn(tt, t) == tt (+) SetToBag({t})
Retire(tt, t) == tt (-) SetToBag({t})

Cmd(c, f, v, t) == [cmd |-> c, file |-> f, vol |-> v, t |-> t]

InitPlayer ==
    /\ queue = <<>>
    /\ loop \in BOOLEAN
    /\ volume = DefaultVolume
    /\ current_process = None
    /\ current_file_index = 0
    /\ command_queue = <<>>
    /\ running = TRUE
    /\ procs = [p \in PIDs |-> Free]
    /\ wpc = "get"
    /\ wfile = NoFile
    /\ mpc = "idle"
    /\ term = EmptyBag
    \* __init__ starts _init_playlist, which calls set_playlist_dir(video_path)
    /\ plthreads = {[pc |-> "scan", t |-> 0, dir |-> VideoDir]}
    /\ videoExists \in BOOLEAN
    /\ videoFiles \in {{}, {"b"}, {"a", "b"}}
    /\ (~videoExists => videoFiles = {})
    /\ cpc = "none"
    /\ nsub = 0
    /\ lastTicket = 0

\* ---- callers: the control surface (non-blocking, each only queues) ----

\* _queue_command(command, *args): self._command_queue.put(...)
QueueCommand(c) == command_queue' = Append(command_queue, c)

\* a caller's call of one of the queued control operations
SubmitCmd(c) ==
    /\ nsub' = nsub + 1
    /\ QueueCommand(c)
    /\ UNCHANGED <<queue, loop, volume, current_process, current_file_index,
                   running, procs, wpc, wfile, mpc, term, plthreads,
                   videoExists, videoFiles, cpc, lastTicket>>

Submit(c) == nsub < MaxSubmit /\ SubmitCmd(c)

\* play(file)
Play(f) == Submit(Cmd("_play_internal", f, 0, nsub + 1))

\* set_volume(vol)
SetVolume(v) == Submit(Cmd("_set_volume_internal", NoFile, v, nsub + 1))

\* stop_play()
StopPlay == Submit(Cmd("_stop_play_internal", NoFile, 0, nsub + 1))

\* next_file()
NextFile == Submit(Cmd("_next_file_internal", NoFile, 0, nsub + 1))

\* set_playlist_dir(path): starts a _set_playlist_internal thread and returns
SetPlaylistDir(d) ==
    /\ nsub < MaxSubmit
    /\ nsub' = nsub + 1
    /\ plthreads' = plthreads \cup {[pc |-> "scan", t |-> nsub + 1, dir |-> d]}
    /\ UNCHANGED <<queue, loop, volume, current_process, current_file_index,
                   command_queue, running, procs, wpc, wfile, mpc, term,
                   videoExists, videoFiles, cpc, lastTicket>>

\* a file of the playback directory is unlinked (as the playlist sync's
\* _cleanup_playlist_files does) while the player runs
FileUnlinked(f) ==
    /\ f \in videoFiles
    /\ videoFiles' = videoFiles \ {f}
    /\ UNCHANGED playerNotDir
    /\ UNCHANGED videoExists

\* MainWindow._play_selected_file(item): the UI thread sets the index of the
\* selected row and calls play
PlaySelectedFile(index) ==
    /\ nsub < MaxSubmit
    /\ 0 <= index /\ index < Len(queue)
    /\ current_file_index' = index
    /\ nsub' = nsub + 1
    /\ QueueCommand(Cmd("_play_internal", queue[index + 1], 0, nsub + 1))
    /\ UNCHANGED <<queue, loop, volume, current_process,
                   running, procs, wpc, wfile, mpc, term, plthreads,
                   videoExists, videoFiles, cpc, lastTicket>>

\* ---- the _set_playlist_internal thread ----

\* os.walk + sort + self.queue = mp4_files; a missing directory only logs
PlScan(th) ==
    /\ th \in plthreads /\ th.pc = "scan"
    /\ IF videoExists /\ th.dir = VideoDir
       THEN /\ queue' = SortedFiles(videoFiles)
            /\ plthreads' = IF queue' # <<>>
                            THEN (plthreads \ {th}) \cup {[th EXCEPT !.pc = "sleep"]}
                            ELSE plthreads \ {th}
       ELSE /\ plthreads' = plthreads \ {th}
            /\ UNCHANGED queue
    /\ UNCHANGED <<loop, volume, current_process, current_file_index,
                   command_queue, running, procs, wpc, wfile, mpc, term,
                   videoExists, videoFiles, cpc, nsub, lastTicket>>

\* after time.sleep(1): self._queue_command("_play_internal", self.queue[0]);
\* self.queue is read again here (IndexError ends the thread if it is empty)
PlSubmit(th) ==
    /\ th \in plthreads /\ th.pc = "sleep"
    /\ plthreads' = plthreads \ {th}
    /\ IF queue # <<>>
       THEN QueueCommand(Cmd("_play_internal", queue[1], 0, th.t))
       ELSE UNCHANGED command_queue
    /\ UNCHANGED <<queue, loop, volume, current_process, current_file_index,
                   running, procs, wpc, wfile, mpc, term,
                   videoExists, videoFiles, cpc, nsub, lastTicket>>

\* ---- the command worker thread ----

\* _stop_current_playback: terminate() the current child and start a
\* wait_for_termination thread; the handle is NOT cleared here
StopProcs == IF current_process = None THEN procs
             ELSE Terminate(procs, current_process)

\* the bound on the wait_for_termination threads
StopRoom == current_process = None \/ BagCardinality(term) < MaxTerm

StopTerm == IF current_process = None THEN term
            ELSE Spawn(term, [pc |-> "start", h |-> None])

\* _play_internal(file), up to the Popen call: index update, stop the current
\* playback, build the command line
PlayInternalBegin(f) ==
    /\ StopRoom
    /\ current_file_index' = (IF IndexOf(queue, f) >= 0 THEN IndexOf(queue, f) ELSE 0)
    /\ procs' = StopProcs
    /\ term' = StopTerm
    /\ wpc' = "launch"
    /\ wfile' = f

\* _get_current_file
GetCurrentFile ==
    IF current_process # None /\ queue # <<>>
       /\ 0 <= current_file_index /\ current_file_index < Len(queue)
    THEN queue[current_file_index + 1]
    ELSE NoFile

\* the index _auto_play_next plays, or -1 when it returns without playing
NextIndex ==
    IF queue = <<>> THEN -1
    ELSE IF current_file_index + 1 < Len(queue) THEN current_file_index + 1
    ELSE IF loop THEN 0
    ELSE -1

\* _auto_play_next (also _next_file_internal, which only calls it)
AutoPlayNext ==
    IF NextIndex >= 0
    THEN PlayInternalBegin(queue[NextIndex + 1])
    ELSE UNCHANGED <<current_file_index, procs, term, wpc, wfile>>

\* `while self._running`, then command, args, kwargs =
\* self._command_queue.get(timeout=1), for one command
WorkerGets(name) ==
    /\ wpc = "get"
    /\ running
    /\ command_queue # <<>>
    /\ Head(command_queue).cmd = name
    /\ command_queue' = Tail(command_queue)

WorkerPlay ==
    /\ WorkerGets("_play_internal")
    /\ lastTicket' = Head(command_queue).t
    /\ PlayInternalBegin(Head(command_queue).file)
    /\ UNCHANGED <<queue, loop, volume, current_process, running, mpc,
                   plthreads, videoExists, videoFiles, cpc, nsub>>

\* _set_volume_internal(vol): set the volume, restart the current file if a
\* child is running
WorkerSetVolume ==
    /\ WorkerGets("_set_volume_internal")
    /\ lastTicket' = Head(command_queue).t
    /\ volume' = ClampVolume(Head(command_queue).vol)
    /\ IF current_process # None /\ GetCurrentFile # NoFile
       THEN PlayInternalBegin(GetCurrentFile)
       ELSE UNCHANGED <<current_file_index, procs, term, wpc, wfile>>
    /\ UNCHANGED <<queue, loop, current_process, running, mpc,
                   plthreads, videoExists, videoFiles, cpc, nsub>>

WorkerNext ==
    /\ WorkerGets("_next_file_internal")
    /\ lastTicket' = Head(command_queue).t
    /\ AutoPlayNext
    /\ UNCHANGED <<queue, loop, volume, current_process, running, mpc,
                   plthreads, videoExists, videoFiles, cpc, nsub>>

\* the monitor's internal auto-advance command
WorkerAutoNext ==
    /\ WorkerGets("_auto_play_next")
    /\ AutoPlayNext
    /\ UNCHANGED <<queue, loop, volume, current_process, running, mpc,
                   plthreads, videoExists, videoFiles, cpc, nsub, lastTicket>>

\* _stop_play_internal
WorkerStop ==
    /\ WorkerGets("_stop_play_internal")
    /\ lastTicket' = Head(command_queue).t
    /\ StopRoom
    /\ procs' = StopProcs
    /\ term' = StopTerm
    /\ UNCHANGED <<queue, loop, volume, current_process, current_file_index,
                   running, wpc, wfile, mpc, plthreads, videoExists,
                   videoFiles, cpc, nsub>>

\* the slot of the process table a new child gets
FreePid == CHOOSE p \in PIDs : procs[p] = Free /\ \A q \in 1 .. p - 1 : procs[q] # Free

\* _play_internal, the Popen call: process = subprocess.Popen(cmd);
\* self.current_process = process (the first attempt or the fallback)
WorkerLaunchOk ==
    /\ wpc = "launch"
    /\ \E p \in PIDs : procs[p] = Free
    /\ current_process' = FreePid
    /\ procs' = Reap([procs EXCEPT ![FreePid] =
                        [file |-> wfile, vol |-> volume, st |-> "running"]],
                     FreePid, term)
    /\ wpc' = "get"
    /\ wfile' = NoFile
    /\ UNCHANGED <<queue, loop, volume, current_file_index, command_queue,
                   running, mpc, term, plthreads, videoExists, videoFiles,
                   cpc, nsub, lastTicket>>

\* both Popen attempts raise: only logged, the handle keeps its old value
WorkerLaunchFail ==
    /\ wpc = "launch"
    /\ wpc' = "get"
    /\ wfile' = NoFile
    /\ UNCHANGED <<queue, loop, volume, current_process, current_file_index,
                   command_queue, running, procs, mpc, term, plthreads,
                   videoExists, videoFiles, cpc, nsub, lastTicket>>

\* `while self._running` is false: the worker thread ends
WorkerExit ==
    /\ wpc = "get"
    /\ ~running
    /\ wpc' = "stopped"
    /\ UNCHANGED <<queue, loop, volume, current_process, current_file_index,
                   command_queue, running, procs, wfile, mpc, term, plthreads,
                   videoExists, videoFiles, cpc, nsub, lastTicket>>

\* ---- the monitor thread ----

\* _check_playback_status: self.current_process.poll() is not None
MonitorPoll ==
    /\ mpc = "idle"
    /\ running
    /\ current_process # None
    /\ procs[current_process].st = "exited"
    /\ mpc' = "seen"
    /\ UNCHANGED <<queue, loop, volume, current_process, current_file_index,
                   command_queue, running, procs, wpc, wfile, term, plthreads,
                   videoExists, videoFiles, cpc, nsub, lastTicket>>

\* _check_playback_status: self.current_process = None, then, if the queue
\* is not empty, self._queue_command("_auto_play_next"). The command has no
\* arguments; its file field only records the successor of the current index
\* at the time of the detection (NoFile for none), and the worker never reads
\* it.
MonitorClear ==
    /\ mpc = "seen"
    /\ mpc' = "idle"
    /\ current_process' = None
    /\ procs' = Reap(procs, None, term)
    /\ IF queue # <<>>
       THEN QueueCommand(Cmd("_auto_play_next",
                             IF NextIndex >= 0 THEN queue[NextIndex + 1]
                                               ELSE NoFile, 0, 0))
       ELSE UNCHANGED command_queue
    /\ UNCHANGED <<queue, loop, volume, current_file_index, running, wpc,
                   wfile, term, plthreads, videoExists, videoFiles, cpc, nsub,
                   lastTicket>>

\* ---- the wait_for_termination threads ----

\* self.current_process.wait(timeout=3): the handle is read when the thread
\* runs; on None the AttributeError leaves through `finally`, which sets the
\* handle to None again, and the thread ends
TermStart(t) ==
    /\ t \in BagToSet(term) /\ t.pc = "start"
    /\ term' = IF current_process = None THEN Retire(term, t)
               ELSE Spawn(Retire(term, t), [pc |-> "wait", h |-> current_process])
    /\ UNCHANGED <<queue, loop, volume, current_process, current_file_index,
                   command_queue, running, procs, wpc, wfile, mpc, plthreads,
                   videoExists, videoFiles, cpc, nsub, lastTicket>>

\* wait() returns because the child waited for has exited;
\* finally: self.current_process = None
TermWaitDone(t) ==
    /\ t \in BagToSet(term) /\ t.pc = "wait"
    /\ procs[t.h].st = "exited"
    /\ term' = Retire(term, t)
    /\ current_process' = None
    /\ procs' = Reap(procs, None, term')
    /\ UNCHANGED <<queue, loop, volume, current_file_index, command_queue,
                   running, wpc, wfile, mpc, plthreads, videoExists,
                   videoFiles, cpc, nsub, lastTicket>>

\* wait() raises TimeoutExpired because the child waited for is still alive;
\* self.current_process.kill() reads the handle again (on None the bare
\* except swallows the error); finally: self.current_process = None
TermTimeoutKill(t) ==
    /\ t \in BagToSet(term) /\ t.pc = "wait"
    /\ procs[t.h].st # "exited"
    /\ term' = Retire(term, t)
    /\ current_process' = None
    /\ procs' = IF current_process = None THEN procs
                ELSE Reap([procs EXCEPT ![current_process].st = "exited"],
                          None, term')
    /\ UNCHANGED <<queue, loop, volume, current_file_index, command_queue,
                   running, wpc, wfile, mpc, plthreads, videoExists,
                   videoFiles, cpc, nsub, lastTicket>>

\* ---- the child player processes ----

\* mpv reaches the end of its file and exits (--keep-open=no)
ProcFinish(p) ==
    /\ procs[p].st = "running"
    /\ procs' = Reap([procs EXCEPT ![p].st = "exited"], current_process, term)
    /\ UNCHANGED <<queue, loop, volume, current_process, current_file_index,
                   command_queue, running, wpc, wfile, mpc, term, plthreads,
                   videoExists, videoFiles, cpc, nsub, lastTicket>>

\* mpv exits after SIGTERM
ProcDie(p) ==
    /\ procs[p].st = "terminating"
    /\ procs' = Reap([procs EXCEPT ![p].st = "exited"], current_process, term)
    /\ UNCHANGED <<queue, loop, volume, current_process, current_file_index,
                   command_queue, running, wpc, wfile, mpc, term, plthreads,
                   videoExists, videoFiles, cpc, nsub, lastTicket>>

\* ---- cleanup() ----

\* self._running = False
CleanupStart ==
    /\ cpc = "none"
    /\ nsub < MaxSubmit
    /\ nsub' = nsub + 1
    /\ running' = FALSE
    /\ cpc' = "join"
    /\ UNCHANGED <<queue, loop, volume, current_process, current_file_index,
                   command_queue, procs, wpc, wfile, mpc, term, plthreads,
                   videoExists, videoFiles, lastTicket>>

\* the two join(timeout=5) calls return (the threads ended or the timeouts
\* ran out); terminate(), wait(timeout=2), kill() on the current child;
\* finally: self.current_process = None
CleanupFinish ==
    /\ cpc = "join"
    /\ cpc' = "done"
    /\ current_process' = None
    /\ procs' = IF current_process = None THEN procs
                ELSE Reap([procs EXCEPT ![current_process].st = "exited"], None, term)
    /\ UNCHANGED <<queue, loop, volume, current_file_index, command_queue,
                   running, wpc, wfile, mpc, term, plthreads, videoExists,
                   videoFiles, nsub, lastTicket>>

\* ---- the Playback Supervisor as a whole ----

PlayerInternal ==
    \/ (\E th \in plthreads : PlScan(th)) /\ UNCHANGED notPlayer
    \/ (\E th \in plthreads : PlSubmit(th)) /\ UNCHANGED notPlayer
    \/ WorkerPlay /\ UNCHANGED notPlayer
    \/ WorkerSetVolume /\ UNCHANGED notPlayer
    \/ WorkerAutoNext /\ UNCHANGED notPlayer
    \/ WorkerLaunchOk /\ UNCHANGED notPlayer
    \/ MonitorPoll /\ UNCHANGED notPlayer
    \/ MonitorClear /\ UNCHANGED notPlayer
    \/ (\E t \in BagToSet(term) : TermStart(t)) /\ UNCHANGED notPlayer
    \/ (\E t \in BagToSet(term) : TermWaitDone(t)) /\ UNCHANGED notPlayer
    \/ (\E t \in BagToSet(term) : TermTimeoutKill(t)) /\ UNCHANGED notPlayer
    \/ (\E p \in PIDs : ProcDie(p)) /\ UNCHANGED notPlayer

NextPlayer ==
    \/ (\E f \in Files : Play(f)) /\ UNCHANGED notPlayer
    \/ (\E v \in VolumeInputs : SetVolume(v)) /\ UNCHANGED notPlayer
    \/ StopPlay /\ UNCHANGED notPlayer
    \/ NextFile /\ UNCHANGED notPlayer
    \/ (\E d \in Dirs : SetPlaylistDir(d)) /\ UNCHANGED notPlayer
    \/ CleanupStart /\ UNCHANGED notPlayer
    \/ CleanupFinish /\ UNCHANGED notPlayer
    \/ WorkerNext /\ UNCHANGED notPlayer
    \/ WorkerStop /\ UNCHANGED notPlayer
    \/ WorkerLaunchFail /\ UNCHANGED notPlayer
    \/ WorkerExit /\ UNCHANGED notPlayer
    \/ (\E p \in PIDs : ProcFinish(p)) /\ UNCHANGED notPlayer
    \/ PlayerInternal

\* the media queue and its writers: the scans of a playback directory whose
\* files come and go, the UI's selection, next_file and the auto-advance
NextQueue ==
    \/ NextFile /\ UNCHANGED notPlayer
    \/ (\E d \in Dirs : SetPlaylistDir(d)) /\ UNCHANGED notPlayer
    \/ (\E f \in Files : FileUnlinked(f)) /\ UNCHANGED notPlayer
    \/ (\E i \in 0 .. Len(FileOrder) - 1 : PlaySelectedFile(i)) /\ UNCHANGED notPlayer
    \/ (\E th \in plthreads : PlScan(th)) /\ UNCHANGED notPlayer
    \/ (\E th \in plthreads : PlSubmit(th)) /\ UNCHANGED notPlayer
    \/ WorkerPlay /\ UNCHANGED notPlayer
    \/ WorkerNext /\ UNCHANGED notPlayer
    \/ WorkerAutoNext /\ UNCHANGED notPlayer
    \/ WorkerLaunchOk /\ UNCHANGED notPlayer
    \/ MonitorPoll /\ UNCHANGED notPlayer
    \/ MonitorClear /\ UNCHANGED notPlayer
    \/ (\E t \in BagToSet(term) : TermStart(t)) /\ UNCHANGED notPlayer
    \/ (\E t \in BagToSet(term) : TermWaitDone(t)) /\ UNCHANGED notPlayer
    \/ (\E t \in BagToSet(term) : TermTimeoutKill(t)) /\ UNCHANGED notPlayer
    \/ (\E p \in PIDs : ProcDie(p)) /\ UNCHANGED notPlayer
    \/ (\E p \in PIDs : ProcFinish(p)) /\ UNCHANGED notPlayer

\* ------------------------------------------------------------------------
\* Command Channel: MqttClient
\* ------------------------------------------------------------------------

RECURSIVE Pow2(_)
Pow2(n) == IF n = 0 THEN 1 ELSE 2 * Pow2(n - 1)
Min(a, b) == IF a < b THEN a ELSE b
Range(q) == {q[i] : i \in 1 .. Len(q)}

\* CONNACK return codes: 0 accepts, the others refuse (5: not authorised)
ConnackCodes == {0, 5}

InitMqtt ==
    /\ connected = FALSE
    /\ reconnect_attempts = 0
    /\ message_queue = <<>>
    /\ mqtt_running = TRUE
    /\ netpc = "none"
    /\ link = "down"
    /\ reconnect_thread = 0
    /\ pubs = {}
    /\ npub = 0
    /\ sent = <<>>
    /\ buffered = <<>>
    /\ atConnect = 0
    /\ schedDelays = <<>>
    /\ gaveUp = FALSE

\* MqttService.__init__: no heartbeat thread yet
InitHeartbeat ==
    /\ heartbeat_loops = 0
    /\ heartbeats = {}
    /\ service_running = TRUE

\* the topics of inbound messages
SubTopics == {"t1", "t2"}
MsgIds == 1 .. MaxIn

InitInbound ==
    /\ callbacks = {}
    /\ subscriptions = {}
    /\ subpc = "none"
    /\ resubscribed = {}
    /\ nmsg = 0
    /\ callback_threads = [i \in MsgIds |-> "none"]

\* _schedule_reconnect: delay = min(base * 2 ** attempts, 60)
ReconnectDelay(attempts) ==
    Min(ReconnectDelayBase * Pow2(attempts), MaxReconnectDelay)

\* _schedule_reconnect
ScheduleReconnect ==
    IF ~mqtt_running
    THEN UNCHANGED <<reconnect_attempts, reconnect_thread, schedDelays, gaveUp>>
    ELSE IF reconnect_attempts >= MaxReconnectAttempts
    THEN /\ gaveUp' = TRUE
         /\ UNCHANGED <<reconnect_attempts, reconnect_thread, schedDelays>>
    ELSE /\ reconnect_thread' = ReconnectDelay(reconnect_attempts)
         /\ schedDelays' = Append(schedDelays, ReconnectDelay(reconnect_attempts))
         /\ reconnect_attempts' = reconnect_attempts + 1
         /\ UNCHANGED gaveUp

\* _start_network_thread: a new network thread unless one is alive
StartNetworkThread == netpc' = (IF netpc = "none" THEN "connect" ELSE netpc)

\* connect()
Connect ==
    /\ mqtt_running' = TRUE
    /\ StartNetworkThread
    /\ gaveUp' = FALSE
    /\ UNCHANGED <<connected, reconnect_attempts, message_queue, link, reconnect_thread,
                   pubs, npub, sent, buffered, atConnect, schedDelays>>

\* disconnect(): self._running = False; self.client.disconnect()
Disconnect ==
    /\ mqtt_running
    /\ mqtt_running' = FALSE
    /\ link' = (IF link = "down" THEN "down" ELSE "closing")
    /\ UNCHANGED <<connected, reconnect_attempts, message_queue, netpc, reconnect_thread,
                   pubs, npub, sent, buffered, atConnect, schedDelays, gaveUp>>

\* delayed_reconnect, after time.sleep(delay)
DelayedReconnect ==
    /\ reconnect_thread # 0
    /\ reconnect_thread' = 0
    /\ IF mqtt_running /\ ~connected THEN StartNetworkThread ELSE UNCHANGED netpc
    /\ UNCHANGED <<connected, reconnect_attempts, message_queue, mqtt_running,
                   link, pubs, npub, sent, buffered, atConnect, schedDelays,
                   gaveUp>>

\* network_loop: self.client.connect(host, port) succeeds and loop_forever starts
NetConnect ==
    /\ netpc = "connect"
    /\ mqtt_running
    /\ netpc' = "loop"
    /\ link' = "wait_connack"
    /\ UNCHANGED <<connected, reconnect_attempts, message_queue, mqtt_running,
                   reconnect_thread, pubs, npub, sent, buffered, atConnect, schedDelays,
                   gaveUp>>

\* network_loop: self.client.connect raises (ConnectionRefusedError or another
\* exception); the loop sleeps and tries again
NetConnectFails ==
    /\ netpc = "connect"
    /\ mqtt_running
    /\ netpc' = "retry"
    /\ link' = "down"
    /\ UNCHANGED <<connected, reconnect_attempts, message_queue, mqtt_running,
                   reconnect_thread, pubs, npub, sent, buffered, atConnect, schedDelays,
                   gaveUp>>

\* network_loop: after time.sleep, `while self._running` holds
NetRetry ==
    /\ netpc = "retry"
    /\ mqtt_running
    /\ netpc' = "connect"
    /\ UNCHANGED <<connected, reconnect_attempts, message_queue, mqtt_running,
                   link, reconnect_thread, pubs, npub, sent, buffered, atConnect,
                   schedDelays, gaveUp>>

\* network_loop: `while self._running` fails and the thread ends
NetExit ==
    /\ netpc \in {"connect", "retry"}
    /\ ~mqtt_running
    /\ netpc' = "none"
    /\ UNCHANGED <<connected, reconnect_attempts, message_queue, mqtt_running,
                   link, reconnect_thread, pubs, npub, sent, buffered, atConnect,
                   schedDelays, gaveUp>>

OnConnectKeepsAttempts ==
    /\ netpc = "loop"
    /\ link = "wait_connack"
    /\ link' = "up"
    /\ connected' = TRUE
    /\ netpc' = "flush"
    /\ atConnect' = Len(buffered)
    /\ schedDelays' = <<>>
    /\ gaveUp' = FALSE
    /\ subscriptions' = subscriptions \cup callbacks
    /\ resubscribed' = callbacks
    /\ UNCHANGED <<reconnect_attempts, message_queue, mqtt_running,
                   reconnect_thread, pubs, npub, sent, buffered>>
    /\ UNCHANGED <<callbacks, subpc, nmsg, callback_threads>>

OnConnectNoResubscribe ==
    /\ netpc = "loop"
    /\ link = "wait_connack"
    /\ link' = "up"
    /\ connected' = TRUE
    /\ reconnect_attempts' = 0
    /\ netpc' = "flush"
    /\ atConnect' = Len(buffered)
    /\ schedDelays' = <<>>
    /\ gaveUp' = FALSE
    /\ resubscribed' = {}
    /\ UNCHANGED <<message_queue, mqtt_running, reconnect_thread, pubs, npub, sent,
                   buffered>>
    /\ UNCHANGED <<callbacks, subscriptions, subpc, nmsg, callback_threads>>

\* _on_connect with rc = 0: connected, attempt counter reset, every topic of
\* self.callbacks subscribed under the lock; the callback goes on to flush the
\* held messages.  (A subscribe() that runs between the assignment to
\* self.connected and the loop subscribes its topic itself.)
OnConnectOk ==
    /\ netpc = "loop"
    /\ link = "wait_connack"
    /\ link' = "up"
    /\ connected' = TRUE
    /\ reconnect_attempts' = 0
    /\ netpc' = "flush"
    /\ atConnect' = Len(buffered)
    /\ schedDelays' = <<>>
    /\ gaveUp' = FALSE
    /\ subscriptions' = subscriptions \cup callbacks
    /\ resubscribed' = callbacks
    /\ UNCHANGED <<message_queue, mqtt_running, reconnect_thread, pubs, npub, sent,
                   buffered>>
    /\ UNCHANGED <<callbacks, subpc, nmsg, callback_threads>>

\* _on_connect with rc # 0: the broker refused
OnConnectRefused ==
    /\ netpc = "loop"
    /\ link = "wait_connack"
    /\ link' = "refused"
    /\ connected' = FALSE
    /\ ScheduleReconnect
    /\ UNCHANGED <<message_queue, mqtt_running, netpc, pubs, npub, sent,
                   buffered, atConnect>>
    /\ UNCHANGED inVars

\* _on_connect
OnConnect(rc) == IF rc = 0 THEN OnConnectOk ELSE OnConnectRefused

\* self.client.publish(topic, payload, qos, retain)
ClientPublish(m) == Append(sent, m)

FlushNewestFirst ==
    /\ netpc = "flush"
    /\ message_queue # <<>>
    /\ sent' = ClientPublish(message_queue[Len(message_queue)])
    /\ message_queue' = SubSeq(message_queue, 1, Len(message_queue) - 1)
    /\ UNCHANGED <<connected, reconnect_attempts, mqtt_running, netpc, link,
                   reconnect_thread, pubs, npub, buffered, atConnect,
                   schedDelays, gaveUp>>

\* _flush_message_queue, one turn of its loop: get_nowait, client.publish
FlushOne ==
    /\ netpc = "flush"
    /\ message_queue # <<>>
    /\ sent' = ClientPublish(Head(message_queue))
    /\ message_queue' = Tail(message_queue)
    /\ UNCHANGED <<connected, reconnect_attempts, mqtt_running, netpc, link,
                   reconnect_thread, pubs, npub, buffered, atConnect, schedDelays, gaveUp>>

\* _flush_message_queue finds the queue empty; _on_connect returns
FlushEnd ==
    /\ netpc = "flush"
    /\ message_queue = <<>>
    /\ netpc' = "loop"
    /\ UNCHANGED <<connected, reconnect_attempts, message_queue, mqtt_running,
                   link, reconnect_thread, pubs, npub, sent, buffered, atConnect,
                   schedDelays, gaveUp>>

\* _on_disconnect with rc # 0: the connection was lost; the session is clean
\* (MqttConfig.cleanSession), so the broker forgets its subscriptions
OnDisconnectLost ==
    /\ netpc = "loop"
    /\ link \in {"wait_connack", "up", "refused"}
    /\ link' = "down"
    /\ connected' = FALSE
    /\ ScheduleReconnect
    /\ subscriptions' = {}
    /\ UNCHANGED <<message_queue, mqtt_running, netpc, pubs, npub, sent,
                   buffered, atConnect>>
    /\ UNCHANGED <<callbacks, subpc, resubscribed, nmsg, callback_threads>>

\* _on_disconnect with rc = 0 after disconnect(); loop_forever returns and
\* network_loop ends because self._running is False
OnDisconnectClean ==
    /\ netpc = "loop"
    /\ link = "closing"
    /\ link' = "down"
    /\ connected' = FALSE
    /\ netpc' = IF mqtt_running THEN "connect" ELSE "none"
    /\ subscriptions' = {}
    /\ UNCHANGED <<reconnect_attempts, message_queue, mqtt_running, reconnect_thread,
                   pubs, npub, sent, buffered, atConnect, schedDelays, gaveUp>>
    /\ UNCHANGED <<callbacks, subpc, resubscribed, nmsg, callback_threads>>

\* loop_forever reconnects by itself after a lost connection
LoopReconnect ==
    /\ netpc = "loop"
    /\ link = "down"
    /\ mqtt_running
    /\ link' = "wait_connack"
    /\ UNCHANGED <<connected, reconnect_attempts, message_queue, mqtt_running,
                   netpc, reconnect_thread, pubs, npub, sent, buffered, atConnect,
                   schedDelays, gaveUp>>

\* loop_forever raises or returns while the connection is down: network_loop
\* sleeps and goes round its `while self._running` loop
LoopRaise ==
    /\ netpc = "loop"
    /\ link = "down"
    /\ netpc' = "retry"
    /\ UNCHANGED <<connected, reconnect_attempts, message_queue, mqtt_running,
                   link, reconnect_thread, pubs, npub, sent, buffered, atConnect,
                   schedDelays, gaveUp>>

\* publish(), first half: `if not self.connected`
PublishBegin ==
    /\ npub < MaxMsgs
    /\ npub' = npub + 1
    /\ pubs' = pubs \cup {[id |-> npub + 1, saw |-> connected]}
    /\ UNCHANGED <<connected, reconnect_attempts, message_queue, mqtt_running,
                   netpc, link, reconnect_thread, sent, buffered, atConnect, schedDelays,
                   gaveUp>>

\* publish(), second half: self._message_queue.put, or self.client.publish
PublishEnd(c) ==
    /\ c \in pubs
    /\ pubs' = pubs \ {c}
    /\ IF c.saw
       THEN /\ sent' = ClientPublish(c.id)
            /\ UNCHANGED <<message_queue, buffered>>
       ELSE /\ message_queue' = Append(message_queue, c.id)
            /\ buffered' = Append(buffered, c.id)
            /\ UNCHANGED sent
    /\ UNCHANGED <<connected, reconnect_attempts, mqtt_running, netpc, link,
                   reconnect_thread, npub, atConnect, schedDelays, gaveUp>>

\* subscribe(), first half: the callback is registered under the lock
SubscribeBegin(t) ==
    /\ subpc = "none"
    /\ callbacks' = callbacks \cup {t}
    /\ subpc' = t
    /\ UNCHANGED <<subscriptions, resubscribed, nmsg, callback_threads>>

\* subscribe(), second half: `if self.connected` client.subscribe, which
\* reaches the broker when the connection is up
SubscribeEnd ==
    /\ subpc # "none"
    /\ subscriptions' = IF connected /\ link = "up"
                        THEN subscriptions \cup {subpc}
                        ELSE subscriptions
    /\ subpc' = "none"
    /\ UNCHANGED <<callbacks, resubscribed, nmsg, callback_threads>>

OnMessageInline(t) ==
    /\ netpc = "loop"
    /\ link = "up"
    /\ t \in subscriptions
    /\ nmsg < MaxIn
    /\ nmsg' = nmsg + 1
    /\ callback_threads' = [callback_threads EXCEPT ![nmsg + 1] = "run"]
    /\ netpc' = "callback"
    /\ UNCHANGED <<connected, reconnect_attempts, message_queue, mqtt_running,
                   link, reconnect_thread, pubs, npub, sent, buffered, atConnect,
                   schedDelays, gaveUp>>
    /\ UNCHANGED <<callbacks, subscriptions, subpc, resubscribed>>

\* _on_message: the callbacks of the topic are copied and a daemon thread is
\* started to run them; the network thread returns to its loop
OnMessage(t) ==
    /\ netpc = "loop"
    /\ link = "up"
    /\ t \in subscriptions
    /\ nmsg < MaxIn
    /\ nmsg' = nmsg + 1
    /\ callback_threads' = [callback_threads EXCEPT ![nmsg + 1] =
                                IF t \in callbacks THEN "run" ELSE "done"]
    /\ UNCHANGED mqttVars
    /\ UNCHANGED <<callbacks, subscriptions, subpc, resubscribed>>

\* handle_callbacks: the callback returns
CallbackReturns(i) ==
    /\ callback_threads[i] = "run"
    /\ callback_threads' = [callback_threads EXCEPT ![i] = "done"]
    /\ UNCHANGED <<callbacks, subscriptions, subpc, resubscribed, nmsg>>

\* handle_callbacks: the callback raises; `except Exception` logs it
CallbackRaises(i) ==
    /\ callback_threads[i] = "run"
    /\ callback_threads' = [callback_threads EXCEPT ![i] = "logged"]
    /\ UNCHANGED <<callbacks, subscriptions, subpc, resubscribed, nmsg>>

\* handle_callbacks: the callback never returns
CallbackBlocks(i) ==
    /\ callback_threads[i] = "run"
    /\ callback_threads' = [callback_threads EXCEPT ![i] = "blocked"]
    /\ UNCHANGED <<callbacks, subscriptions, subpc, resubscribed, nmsg>>

NextMqtt ==
    \/ Connect /\ UNCHANGED notMqtt
    \/ Disconnect /\ UNCHANGED notMqtt
    \/ DelayedReconnect /\ UNCHANGED notMqtt
    \/ NetConnect /\ UNCHANGED notMqtt
    \/ NetConnectFails /\ UNCHANGED notMqtt
    \/ NetRetry /\ UNCHANGED notMqtt
    \/ NetExit /\ UNCHANGED notMqtt
    \/ (\E rc \in ConnackCodes : OnConnect(rc)) /\ UNCHANGED notChannel
    \/ FlushOne /\ UNCHANGED notMqtt
    \/ FlushEnd /\ UNCHANGED notMqtt
    \/ OnDisconnectLost /\ UNCHANGED notChannel
    \/ OnDisconnectClean /\ UNCHANGED notChannel
    \/ LoopReconnect /\ UNCHANGED notMqtt
    \/ LoopRaise /\ UNCHANGED notMqtt
    \/ PublishBegin /\ UNCHANGED notMqtt
    \/ (\E c \in pubs : PublishEnd(c)) /\ UNCHANGED notMqtt

\* ---- MqttService: the heartbeat ----

\* the end of _on_connect of the client MqttService.start() has set
\* on_connect_success on: after the flush, _on_connect_success calls
\* _start_heartbeat, which returns if the heartbeat thread is alive and starts
\* a heartbeat_loop thread otherwise
OnConnectSuccess ==
    /\ FlushEnd
    /\ heartbeat_loops' = IF heartbeat_loops > 0 THEN heartbeat_loops
                          ELSE heartbeat_loops + 1
    /\ UNCHANGED <<heartbeats, service_running>>

\* heartbeat_loop: `while self._running`, _send_heartbeat() up to the test of
\* self.connected in MqttClient.publish, then time.sleep(5)
HeartbeatSend ==
    /\ heartbeat_loops > 0
    /\ service_running
    /\ PublishBegin
    /\ heartbeats' = heartbeats \cup {npub + 1}
    /\ UNCHANGED <<heartbeat_loops, service_running>>

\* heartbeat_loop finds self._running false and ends
HeartbeatExit ==
    /\ heartbeat_loops > 0
    /\ ~service_running
    /\ heartbeat_loops' = heartbeat_loops - 1
    /\ UNCHANGED <<heartbeats, service_running>>
    /\ UNCHANGED mqttVars

\* MqttService.stop(): self._running = False, heartbeat_thread.join(timeout=5)
\* returns (the thread ended or the timeout ran out), self.client.disconnect()
ServiceStop ==
    /\ service_running
    /\ service_running' = FALSE
    /\ Disconnect
    /\ UNCHANGED <<heartbeat_loops, heartbeats>>

\* the connection's life cycle with the service's heartbeat as the only
\* publisher
NextHeartbeat ==
    \/ Connect /\ UNCHANGED notMqtt
    \/ ServiceStop /\ UNCHANGED notHeartbeat
    \/ DelayedReconnect /\ UNCHANGED notMqtt
    \/ NetConnect /\ UNCHANGED notMqtt
    \/ NetConnectFails /\ UNCHANGED notMqtt
    \/ NetRetry /\ UNCHANGED notMqtt
    \/ NetExit /\ UNCHANGED notMqtt
    \/ (\E rc \in ConnackCodes : OnConnect(rc)) /\ UNCHANGED notChannel
    \/ FlushOne /\ UNCHANGED notMqtt
    \/ OnConnectSuccess /\ UNCHANGED notHeartbeat
    \/ OnDisconnectLost /\ UNCHANGED notChannel
    \/ OnDisconnectClean /\ UNCHANGED notChannel
    \/ LoopReconnect /\ UNCHANGED notMqtt
    \/ LoopRaise /\ UNCHANGED notMqtt
    \/ HeartbeatSend /\ UNCHANGED notHeartbeat
    \/ (\E c \in pubs : PublishEnd(c)) /\ UNCHANGED notMqtt
    \/ HeartbeatExit /\ UNCHANGED notHeartbeat

\* the connection's life cycle and the inbound side, nothing published
NextInbound ==
    \/ Connect /\ UNCHANGED notMqtt
    \/ Disconnect /\ UNCHANGED notMqtt
    \/ DelayedReconnect /\ UNCHANGED notMqtt
    \/ NetConnect /\ UNCHANGED notMqtt
    \/ NetConnectFails /\ UNCHANGED notMqtt
    \/ NetRetry /\ UNCHANGED notMqtt
    \/ NetExit /\ UNCHANGED notMqtt
    \/ (\E rc \in ConnackCodes : OnConnect(rc)) /\ UNCHANGED notChannel
    \/ FlushEnd /\ UNCHANGED notMqtt
    \/ OnDisconnectLost /\ UNCHANGED notChannel
    \/ OnDisconnectClean /\ UNCHANGED notChannel
    \/ LoopReconnect /\ UNCHANGED notMqtt
    \/ LoopRaise /\ UNCHANGED notMqtt
    \/ (\E t \in SubTopics : SubscribeBegin(t)) /\ UNCHANGED notInbound
    \/ SubscribeEnd /\ UNCHANGED notInbound
    \/ (\E t \in SubTopics : OnMessage(t)) /\ UNCHANGED notChannel
    \/ (\E i \in MsgIds : CallbackReturns(i)) /\ UNCHANGED notInbound
    \/ (\E i \in MsgIds : CallbackRaises(i)) /\ UNCHANGED notInbound
    \/ (\E i \in MsgIds : CallbackBlocks(i)) /\ UNCHANGED notInbound

\* ------------------------------------------------------------------------
\* Download Manager: DownloadManager, Downloader, verify_checksum
\* ------------------------------------------------------------------------

TaskIds == 1 .. MaxTasks

\* what a URL may serve
Contents == {"x", "y"}

\* calc_checksum: the hex digest of a file's bytes (hexdigest is lower case)
CalcChecksum(c) == IF c = "x" THEN "0a" ELSE "1b"

\* the checksum a task may carry: none, the digest of "x" in lower and in
\* upper case, the digest of "y"
Checksums == {"", "0a", "0A", "1b"}

\* str.lower
Lower(str) == IF str = "0A" THEN "0a" ELSE str

\* verify_checksum: calc_checksum(path).lower() == expected.lower(); a missing
\* file verifies as False
VerifyChecksum(content, expected) ==
    IF content = NoFile THEN FALSE
    ELSE Lower(CalcChecksum(content)) = Lower(expected)

\* DownloadTask: no task under this id yet
NoTask == [status |-> "none", reason |-> "", checksum |-> "", got |-> NoFile,
           exc |-> "", pc |-> "none"]

\* str(exc) of the exceptions a request, a transfer or a rename may raise
ExcTexts == {"timeout", "denied"}

InitDownload ==
    /\ tasks = [t \in TaskIds |-> NoTask]
    /\ semaphore = MaxConcurrent
    /\ tmpFiles = [t \in TaskIds |-> NoFile]
    /\ destFiles = [t \in TaskIds |-> NoFile]

\* DownloadManager.enqueue: a DownloadTask (status "queued") is registered and
\* its _run coroutine is created
Enqueue(t, cs) ==
    /\ tasks[t] = NoTask
    /\ \A u \in 1 .. t - 1 : tasks[u] # NoTask
    /\ tasks' = [tasks EXCEPT ![t] = [status |-> "queued", reason |-> "",
                                      checksum |-> cs, got |-> NoFile,
                                      exc |-> "", pc |-> "run"]]
    /\ UNCHANGED <<semaphore, tmpFiles, destFiles>>

RunBeginTakesNoSlot(t) ==
    /\ tasks[t].pc = "run"
    /\ tasks' = [tasks EXCEPT ![t].status = "downloading", ![t].pc = "stream"]
    /\ UNCHANGED <<semaphore, tmpFiles, destFiles>>

\* DownloadManager._run begins: status "downloading", then Downloader.fetch
\* enters `async with self.semaphore`, at once if a slot is free
RunBegin(t) ==
    /\ tasks[t].pc = "run"
    /\ IF semaphore > 0
       THEN /\ semaphore' = semaphore - 1
            /\ tasks' = [tasks EXCEPT ![t].status = "downloading",
                                      ![t].pc = "stream"]
       ELSE /\ tasks' = [tasks EXCEPT ![t].status = "downloading",
                                      ![t].pc = "wait"]
            /\ UNCHANGED semaphore
    /\ UNCHANGED <<tmpFiles, destFiles>>

\* a waiting fetch gets a slot
Acquire(t) ==
    /\ tasks[t].pc = "wait"
    /\ semaphore > 0
    /\ semaphore' = semaphore - 1
    /\ tasks' = [tasks EXCEPT ![t].pc = "stream"]
    /\ UNCHANGED <<tmpFiles, destFiles>>

\* Downloader.fetch: the response body has been written to the .part file
StreamDone(t, c) ==
    /\ tasks[t].pc = "stream"
    /\ tmpFiles' = [tmpFiles EXCEPT ![t] = c]
    /\ tasks' = [tasks EXCEPT ![t].got = c, ![t].pc = "verify"]
    /\ UNCHANGED <<semaphore, destFiles>>

\* Downloader.fetch: the first chunks of the body are in the .part file
StreamPartial(t) ==
    /\ tasks[t].pc = "stream"
    /\ tmpFiles[t] = NoFile
    /\ tmpFiles' = [tmpFiles EXCEPT ![t] = "part"]
    /\ UNCHANGED <<tasks, semaphore, destFiles>>

StreamFailsKeepsPermit(t, e) ==
    /\ tasks[t].pc = "stream"
    /\ tmpFiles' = [tmpFiles EXCEPT ![t] = NoFile]
    /\ tasks' = [tasks EXCEPT ![t].status = "failed", ![t].reason = e,
                              ![t].exc = e, ![t].pc = "finished"]
    /\ UNCHANGED <<semaphore, destFiles>>

StreamFailsKeepsPart(t, e) ==
    /\ tasks[t].pc = "stream"
    /\ semaphore' = semaphore + 1
    /\ tasks' = [tasks EXCEPT ![t].status = "failed", ![t].reason = e,
                              ![t].exc = e, ![t].pc = "finished"]
    /\ UNCHANGED <<tmpFiles, destFiles>>

\* Downloader.fetch: the request or the transfer raises exc; the .part file
\* is removed and the result carries str(exc); _run records it
StreamFails(t, e) ==
    /\ tasks[t].pc = "stream"
    /\ tmpFiles' = [tmpFiles EXCEPT ![t] = NoFile]
    /\ semaphore' = semaphore + 1
    /\ tasks' = [tasks EXCEPT ![t].status = "failed", ![t].reason = e,
                              ![t].exc = e, ![t].pc = "finished"]
    /\ UNCHANGED destFiles

\* Downloader.fetch: tmp.rename(dest) raises exc; handled as above
RenameRaises(t, e) ==
    /\ tasks[t].pc = "verify"
    /\ tasks[t].checksum = "" \/ VerifyChecksum(tmpFiles[t], tasks[t].checksum)
    /\ tmpFiles' = [tmpFiles EXCEPT ![t] = NoFile]
    /\ semaphore' = semaphore + 1
    /\ tasks' = [tasks EXCEPT ![t].status = "failed", ![t].reason = e,
                              ![t].exc = e, ![t].pc = "finished"]
    /\ UNCHANGED destFiles

FetchEndRenamesFirst(t) ==
    /\ tasks[t].pc = "verify"
    /\ semaphore' = semaphore + 1
    /\ destFiles' = [destFiles EXCEPT ![t] = tmpFiles[t]]
    /\ tmpFiles' = [tmpFiles EXCEPT ![t] = NoFile]
    /\ IF tasks[t].checksum # "" /\ ~VerifyChecksum(tmpFiles[t], tasks[t].checksum)
       THEN tasks' = [tasks EXCEPT ![t].status = "failed",
                                   ![t].reason = "checksum_mismatch",
                                   ![t].pc = "finished"]
       ELSE tasks' = [tasks EXCEPT ![t].status = "done", ![t].pc = "finished"]

\* Downloader.fetch after the transfer: a supplied checksum that does not
\* verify removes the .part file and fails with "checksum_mismatch"; otherwise
\* the .part file is renamed to dest. The slot is released and _run records
\* the result.
FetchEnd(t) ==
    /\ tasks[t].pc = "verify"
    /\ semaphore' = semaphore + 1
    /\ IF tasks[t].checksum # "" /\ ~VerifyChecksum(tmpFiles[t], tasks[t].checksum)
       THEN /\ tmpFiles' = [tmpFiles EXCEPT ![t] = NoFile]
            /\ tasks' = [tasks EXCEPT ![t].status = "failed",
                                      ![t].reason = "checksum_mismatch",
                                      ![t].pc = "finished"]
            /\ UNCHANGED destFiles
       ELSE /\ destFiles' = [destFiles EXCEPT ![t] = tmpFiles[t]]
            /\ tmpFiles' = [tmpFiles EXCEPT ![t] = NoFile]
            /\ tasks' = [tasks EXCEPT ![t].status = "done",
                                      ![t].pc = "finished"]

\* DownloadManager.enqueue of a task whose id is already in self.tasks, after
\* the earlier task's _run has ended: self.tasks[task.task_id] = task puts the
\* new task in the place of the earlier one. The files under the id are then
\* those of the new task, whose dest is not there (_add_async_download_task
\* skips a file that exists).
EnqueueSameId(t, cs) ==
    /\ tasks[t].pc = "finished"
    /\ tasks' = [tasks EXCEPT ![t] = [status |-> "queued", reason |-> "",
                                      checksum |-> cs, got |-> NoFile,
                                      exc |-> "", pc |-> "run"]]
    /\ destFiles' = [destFiles EXCEPT ![t] = NoFile]
    /\ UNCHANGED <<semaphore, tmpFiles>>

NextDownload ==
    \/ (\E t \in TaskIds, cs \in Checksums : Enqueue(t, cs)) /\ UNCHANGED notDownload
    \/ (\E t \in TaskIds : RunBegin(t)) /\ UNCHANGED notDownload
    \/ (\E t \in TaskIds : Acquire(t)) /\ UNCHANGED notDownload
    \/ (\E t \in TaskIds, c \in Contents : StreamDone(t, c)) /\ UNCHANGED notDownload
    \/ (\E t \in TaskIds : StreamPartial(t)) /\ UNCHANGED notDownload
    \/ (\E t \in TaskIds, e \in ExcTexts : StreamFails(t, e)) /\ UNCHANGED notDownload
    \/ (\E t \in TaskIds, e \in ExcTexts : RenameRaises(t, e)) /\ UNCHANGED notDownload
    \/ (\E t \in TaskIds : FetchEnd(t)) /\ UNCHANGED notDownload

\* the Download Manager with task ids that come again
NextReenqueue ==
    \/ NextDownload
    \/ (\E t \in TaskIds, cs \in Checksums : EnqueueSameId(t, cs))
           /\ UNCHANGED notDownload

\* ------------------------------------------------------------------------
\* Playlist sync: MqttService._handle_playlist_distribution and its thread
\* ------------------------------------------------------------------------

SyncIds == 1 .. MaxSyncs

\* the "files" lists and the "mode" values of playlist-distribution messages
Targets == {{"a"}, {"b", "c"}}
Modes == {"immediate", "scheduled"}

\* ran: the steps of the sync that were executed; failed: those that raised
NoSync == [pc |-> "none", handler |-> "none", mode |-> "", target |-> {},
           current |-> {}, c0 |-> {}, steps |-> FALSE, pub |-> <<>>,
           ran |-> {}, failed |-> {}]

InitSync ==
    /\ player_instance = FALSE
    /\ syncs = [s \in SyncIds |-> NoSync]
    /\ downloadFiles = {}

\* a call func(*args, **kwargs) binds only keywords the function declares;
\* any other keyword raises TypeError
CallAccepts(params, keywords) == keywords \subseteq params

\* def set_playlist_dir(self, path)
SetPlaylistDirParams == {"path"}

\* player.set_playlist_dir(video_path, use_playlist_mode=True)
ReloadKeywords == {"use_playlist_mode"}

\* a finished download lands in the download directory
FileDownloaded(f) ==
    /\ f \notin downloadFiles
    /\ \A s \in SyncIds : syncs[s].pc = "none"
    /\ downloadFiles' = downloadFiles \cup {f}
    /\ UNCHANGED <<player_instance, syncs, playerVars>>

\* set_player_instance(player)
SetPlayerInstance ==
    /\ ~player_instance
    /\ player_instance' = TRUE
    /\ UNCHANGED <<syncs, downloadFiles, playerVars>>

\* _handle_playlist_distribution with a non-empty file list: starts the
\* _process_playlist_distribution thread, then publishes "processing"
HandlePlaylistDistribution(s, T, mode) ==
    /\ syncs[s] = NoSync
    /\ \A u \in 1 .. s - 1 : syncs[u] # NoSync
    /\ syncs' = [syncs EXCEPT ![s] = [NoSync EXCEPT !.pc = "start",
                                                    !.handler = "publish",
                                                    !.mode = mode,
                                                    !.target = T,
                                                    !.c0 = videoFiles]]
    /\ UNCHANGED <<player_instance, downloadFiles, playerVars>>

\* _handle_playlist_distribution: publish_status({... "status": "processing"})
HandlerPublish(s) ==
    /\ syncs[s].handler = "publish"
    /\ syncs' = [syncs EXCEPT ![s].handler = "done",
                              ![s].pub = Append(@, "processing")]
    /\ UNCHANGED <<player_instance, downloadFiles, playerVars>>

\* _process_playlist_distribution begins: without a player instance it logs
\* and returns; otherwise _get_current_playlist_files lists the directory
SyncStart(s) ==
    /\ syncs[s].pc = "start"
    /\ syncs' = IF ~player_instance
                THEN [syncs EXCEPT ![s].pc = "done"]
                ELSE [syncs EXCEPT ![s].pc = "cleanup",
                                   ![s].steps = TRUE,
                                   ![s].c0 = videoFiles,
                                   ![s].ran = {"enumerate"},
                                   ![s].current = IF videoExists THEN videoFiles
                                                  ELSE {}]
    /\ UNCHANGED <<player_instance, downloadFiles, playerVars>>

\* _get_current_playlist_files: iterdir raises; the exception is logged and
\* the empty list is returned
ListRaises(s) ==
    /\ syncs[s].pc = "start"
    /\ player_instance
    /\ videoExists
    /\ syncs' = [syncs EXCEPT ![s].pc = "cleanup",
                              ![s].steps = TRUE,
                              ![s].c0 = videoFiles,
                              ![s].ran = {"enumerate"},
                              ![s].failed = {"enumerate"},
                              ![s].current = {}]
    /\ UNCHANGED <<player_instance, downloadFiles, playerVars>>

\* the listed files that _cleanup_playlist_files unlinks
ToDelete(s) ==
    IF videoExists THEN (syncs[s].current \ syncs[s].target) \cap videoFiles
    ELSE {}

\* _cleanup_playlist_files: unlink every listed file whose name is not in the
\* target list
CleanupPlaylistFiles(s) ==
    /\ syncs[s].pc = "cleanup"
    /\ videoFiles' = videoFiles \ ToDelete(s)
    /\ syncs' = [syncs EXCEPT ![s].pc = "copy", ![s].ran = @ \cup {"delete"}]
    /\ UNCHANGED <<player_instance, downloadFiles, videoExists, playerNotDir>>

\* _cleanup_playlist_files: an unlink raises; the exception is logged and the
\* method returns
CleanupRaises(s) ==
    /\ syncs[s].pc = "cleanup"
    /\ ToDelete(s) # {}
    /\ syncs' = [syncs EXCEPT ![s].pc = "copy", ![s].ran = @ \cup {"delete"},
                              ![s].failed = @ \cup {"delete"}]
    /\ UNCHANGED <<player_instance, downloadFiles, playerVars>>

\* the target files that _copy_missing_files copies
ToCopy(s) == (syncs[s].target \ videoFiles) \cap downloadFiles

\* _copy_missing_files: mkdir of the playback directory, then every target
\* file missing there and present in the download directory is copied
CopyMissingFiles(s) ==
    /\ syncs[s].pc = "copy"
    /\ videoExists' = TRUE
    /\ videoFiles' = videoFiles \cup ToCopy(s)
    /\ syncs' = [syncs EXCEPT ![s].pc = "reload", ![s].ran = @ \cup {"copy"}]
    /\ UNCHANGED <<player_instance, downloadFiles, playerNotDir>>

\* _copy_missing_files: a copy raises; the exception is logged and the method
\* returns
CopyRaises(s) ==
    /\ syncs[s].pc = "copy"
    /\ ToCopy(s) # {}
    /\ videoExists' = TRUE
    /\ syncs' = [syncs EXCEPT ![s].pc = "reload", ![s].ran = @ \cup {"copy"},
                              ![s].failed = @ \cup {"copy"}]
    /\ UNCHANGED <<player_instance, downloadFiles, videoFiles, playerNotDir>>

\* _update_playlist_and_restart: player.stop_play() in immediate mode, then
\* player.set_playlist_dir(video_path, use_playlist_mode=True), whose
\* TypeError is caught and logged; then the "completed" status is published
UpdatePlaylistAndRestart(s) ==
    /\ syncs[s].pc = "reload"
    /\ nsub' = nsub + 1
    /\ command_queue' =
           IF syncs[s].mode = "immediate"
           THEN Append(command_queue,
                       Cmd("_stop_play_internal", NoFile, 0, nsub + 1))
           ELSE command_queue
    /\ plthreads' =
           IF CallAccepts(SetPlaylistDirParams, ReloadKeywords)
           THEN plthreads \cup {[pc |-> "scan", t |-> nsub + 1, dir |-> VideoDir]}
           ELSE plthreads
    /\ syncs' = [syncs EXCEPT ![s].pc = "done",
                              ![s].ran = @ \cup {"reload"},
                              ![s].failed =
                                  IF CallAccepts(SetPlaylistDirParams, ReloadKeywords)
                                  THEN @ ELSE @ \cup {"reload"},
                              ![s].pub = Append(@, "completed")]
    /\ UNCHANGED <<player_instance, downloadFiles, queue, loop, volume,
                   current_process, current_file_index, running, procs, wpc,
                   wfile, mpc, term, videoExists, videoFiles, cpc, lastTicket>>

NextSync ==
    \/ (\E f \in {"c"} : FileDownloaded(f)) /\ UNCHANGED notSync
    \/ SetPlayerInstance /\ UNCHANGED notSync
    \/ (\E T \in Targets, mode \in Modes :
            HandlePlaylistDistribution(1, T, mode)) /\ UNCHANGED notSync
    \/ (\E s \in SyncIds : HandlerPublish(s)) /\ UNCHANGED notSync
    \/ (\E s \in SyncIds : SyncStart(s)) /\ UNCHANGED notSync
    \/ (\E s \in SyncIds : ListRaises(s)) /\ UNCHANGED notSync
    \/ (\E s \in SyncIds : CleanupPlaylistFiles(s)) /\ UNCHANGED notSync
    \/ (\E s \in SyncIds : CleanupRaises(s)) /\ UNCHANGED notSync
    \/ (\E s \in SyncIds : CopyMissingFiles(s)) /\ UNCHANGED notSync
    \/ (\E s \in SyncIds : CopyRaises(s)) /\ UNCHANGED notSync
    \/ (\E s \in SyncIds : UpdatePlaylistAndRestart(s)) /\ UNCHANGED notSync
    \/ (\E th \in plthreads : PlScan(th)) /\ UNCHANGED <<notSync, syncVars>>
    \/ (\E th \in plthreads : PlSubmit(th)) /\ UNCHANGED <<notSync, syncVars>>
    \/ WorkerPlay /\ UNCHANGED <<notSync, syncVars>>
    \/ WorkerStop /\ UNCHANGED <<notSync, syncVars>>
    \/ WorkerAutoNext /\ UNCHANGED <<notSync, syncVars>>
    \/ WorkerLaunchOk /\ UNCHANGED <<notSync, syncVars>>
    \/ MonitorPoll /\ UNCHANGED <<notSync, syncVars>>
    \/ MonitorClear /\ UNCHANGED <<notSync, syncVars>>
    \/ (\E t \in BagToSet(term) : TermStart(t)) /\ UNCHANGED <<notSync, syncVars>>
    \/ (\E t \in BagToSet(term) : TermWaitDone(t)) /\ UNCHANGED <<notSync, syncVars>>
    \/ (\E t \in BagToSet(term) : TermTimeoutKill(t)) /\ UNCHANGED <<notSync, syncVars>>
    \/ (\E p \in PIDs : ProcDie(p)) /\ UNCHANGED <<notSync, syncVars>>
    \/ (\E p \in PIDs : ProcFinish(p)) /\ UNCHANGED <<notSync, syncVars>>

\* the playlist syncs of several messages, each in its own thread, none of
\* whose steps fails
NextSyncPair ==
    \/ (\E f \in Files : FileDownloaded(f)) /\ UNCHANGED notSync
    \/ SetPlayerInstance /\ UNCHANGED notSync
    \/ (\E s \in SyncIds, T \in Targets, mode \in Modes :
            HandlePlaylistDistribution(s, T, mode)) /\ UNCHANGED notSync
    \/ (\E s \in SyncIds : HandlerPublish(s)) /\ UNCHANGED notSync
    \/ (\E s \in SyncIds : SyncStart(s)) /\ UNCHANGED notSync
    \/ (\E s \in SyncIds : CleanupPlaylistFiles(s)) /\ UNCHANGED notSync
    \/ (\E s \in SyncIds : CopyMissingFiles(s)) /\ UNCHANGED notSync
    \/ (\E s \in SyncIds : UpdatePlaylistAndRestart(s)) /\ UNCHANGED notSync

\* ------------------------------------------------------------------------
\* File distribution: MqttService._handle_file_distribution
\* ------------------------------------------------------------------------

\* the entries of a file list: the name of the file and whether the entry
\* carries a downloadUrl; the file lists of the messages
FileEntries == [name : {"a", "b"}, url : BOOLEAN]
FileLists == UNION {[1 .. n -> FileEntries] : n \in 0 .. MaxFiles}

InitFileDist ==
    /\ ndist = 0
    /\ file_msg = <<>>
    /\ enqueue_calls = <<>>
    /\ download_pubs = <<>>

\* _add_async_download_task creates a task for the entry: it returns early
\* for an entry without downloadUrl and for a file that exists in the
\* download directory
AddsTask(e) == e.url /\ e.name \notin downloadFiles

AddsTaskUnlessNoUrl(e) == e.url

HandleFileDistributionAll(files) ==
    /\ ndist < MaxDist
    /\ ndist' = ndist + 1
    /\ file_msg' = files
    /\ IF files = <<>>
       THEN UNCHANGED <<enqueue_calls, download_pubs>>
       ELSE /\ enqueue_calls' = enqueue_calls \o SelectSeq(files, AddsTaskUnlessNoUrl)
            /\ download_pubs' = Append(download_pubs,
                                       [status |-> "started",
                                        file_count |-> Len(files)])

\* _handle_file_distribution for a file-distribution message with the file
\* list `files`: an empty list only logs a warning; otherwise
\* _add_async_download_task for each entry in turn, then publish_download of
\* a "started" status with file_count = len(files)
HandleFileDistribution(files) ==
    /\ ndist < MaxDist
    /\ ndist' = ndist + 1
    /\ file_msg' = files
    /\ IF files = <<>>
       THEN UNCHANGED <<enqueue_calls, download_pubs>>
       ELSE /\ enqueue_calls' = enqueue_calls \o SelectSeq(files, AddsTask)
            /\ download_pubs' = Append(download_pubs,
                                       [status |-> "started",
                                        file_count |-> Len(files)])

\* file-distribution messages arrive while downloads land in the directory
NextFileDist ==
    \/ (\E f \in {"a", "b"} : FileDownloaded(f)) /\ UNCHANGED notSync
    \/ (\E files \in FileLists : HandleFileDistribution(files))
           /\ UNCHANGED notFileDist

\* ------------------------------------------------------------------------
\* Health Monitor: HealthCheck
\* ------------------------------------------------------------------------

\* the components ApplicationManager registers, in registration order
Components == <<"mqtt", "downloader", "player">>
ComponentNames == {Components[i] : i \in 1 .. Len(Components)}

\* the components registered with a recovery_func
HasRecovery == {"mqtt", "player"}

\* register_component(..., max_failures): 2 for mqtt, 3 for player, default 3
MaxFailuresOf(c) == IF c = "mqtt" THEN 2 ELSE 3

\* register_component: failure_count 0, healthy True
InitHealth ==
    /\ checks = [c \in ComponentNames |-> [failure_count |-> 0, healthy |-> TRUE]]
    /\ hpc = 1
    /\ streak = [c \in ComponentNames |-> 0]
    /\ invoked = [c \in ComponentNames |-> FALSE]

\* the number of failed probes in a row after one more, starting again from 1
\* once the threshold was reached
StreakAfterFailure(c) ==
    IF streak[c] >= MaxFailuresOf(c) THEN 1 ELSE streak[c] + 1

\* _perform_checks, one component: check_func() returns True
ProbeHealthy(c) ==
    /\ hpc <= Len(Components) /\ c = Components[hpc]
    /\ checks' = [checks EXCEPT ![c] = [failure_count |-> 0, healthy |-> TRUE]]
    /\ hpc' = hpc + 1
    /\ streak' = [streak EXCEPT ![c] = 0]
    /\ invoked' = [invoked EXCEPT ![c] = FALSE]

\* the recovery branch: failure_count >= max_failures and a recovery_func
Recovers(c, count) == count >= MaxFailuresOf(c) /\ c \in HasRecovery

\* _perform_checks, one component: check_func() returns False; at the
\* threshold recovery_func() is called and, when it returns, failure_count is
\* set to 0
ProbeFails(c) ==
    /\ hpc <= Len(Components) /\ c = Components[hpc]
    /\ checks[c].failure_count < MaxCount
    /\ checks' = [checks EXCEPT ![c] =
           [failure_count |-> IF Recovers(c, checks[c].failure_count + 1)
                              THEN 0 ELSE checks[c].failure_count + 1,
            healthy |-> FALSE]]
    /\ hpc' = hpc + 1
    /\ streak' = [streak EXCEPT ![c] = StreakAfterFailure(c)]
    /\ invoked' = [invoked EXCEPT ![c] = Recovers(c, checks[c].failure_count + 1)]

\* _perform_checks, one component: check_func() returns False, the threshold
\* is reached and recovery_func() raises: the exception is logged and
\* failure_count keeps its value
ProbeFailsRecoveryRaises(c) ==
    /\ hpc <= Len(Components) /\ c = Components[hpc]
    /\ checks[c].failure_count < MaxCount
    /\ Recovers(c, checks[c].failure_count + 1)
    /\ checks' = [checks EXCEPT ![c] =
           [failure_count |-> checks[c].failure_count + 1, healthy |-> FALSE]]
    /\ hpc' = hpc + 1
    /\ streak' = [streak EXCEPT ![c] = StreakAfterFailure(c)]
    /\ invoked' = [invoked EXCEPT ![c] = TRUE]

\* _perform_checks, one component: check_func() raises; the outer except
\* counts the failure and marks the component unhealthy
ProbeRaises(c) ==
    /\ hpc <= Len(Components) /\ c = Components[hpc]
    /\ checks[c].failure_count < MaxCount
    /\ checks' = [checks EXCEPT ![c] =
           [failure_count |-> checks[c].failure_count + 1, healthy |-> FALSE]]
    /\ hpc' = hpc + 1
    /\ streak' = [streak EXCEPT ![c] = StreakAfterFailure(c)]
    /\ invoked' = [invoked EXCEPT ![c] = FALSE]

\* health_check_loop: time.sleep(self.check_interval) after _perform_checks;
\* the sleep makes every component due again (current_time - last_check is at
\* least check_interval), so the next poll skips none
HealthSleep ==
    /\ hpc = Len(Components) + 1
    /\ hpc' = 1
    /\ UNCHANGED <<checks, streak, invoked>>

\* check_player: a supervisor with a queue attribute is healthy if the queue
\* is not empty or a child process exists
CheckPlayer == Len(queue) > 0 \/ current_process # None

\* _perform_checks for the player component with check_player as its probe.
\* recover_player does nothing unless the queue is non-empty, which it never
\* is when check_player has returned False.
ProbePlayer ==
    IF CheckPlayer THEN ProbeHealthy("player") ELSE ProbeFails("player")

NextHealth ==
    \/ (\E c \in ComponentNames : ProbeHealthy(c)) /\ UNCHANGED notHealth
    \/ (\E c \in ComponentNames : ProbeFails(c)) /\ UNCHANGED notHealth
    \/ (\E c \in ComponentNames : ProbeFailsRecoveryRaises(c)) /\ UNCHANGED notHealth
    \/ (\E c \in ComponentNames : ProbeRaises(c)) /\ UNCHANGED notHealth
    \/ HealthSleep /\ UNCHANGED notHealth

\* ------------------------------------------------------------------------
\* Transfers by destination path
\* ------------------------------------------------------------------------

FetchIds == 1 .. MaxFetches
\* the file names of file-distribution entries
DestNames == {"a", "b"}
NoSuchFile == [exists |-> FALSE, bytes |-> {}]

InitPaths ==
    /\ fetches = [i \in FetchIds |-> [pc |-> "none", dest |-> NoFile,
                                      h |-> "none", status |-> ""]]
    /\ partFiles = [d \in DestNames |-> NoSuchFile]
    /\ storedFiles = [d \in DestNames |-> NoSuchFile]

\* the transfers inside `async with self.semaphore`
HoldsPermit == {i \in FetchIds : fetches[i].pc \in {"stream", "rename"}}

\* the transfers whose open file is the one at h for the name d
OpenAt(d, h) == {i \in FetchIds : fetches[i].dest = d /\ fetches[i].h = h}

\* _add_async_download_task: an entry named d whose download path does not
\* exist becomes a task with dest = download path / d, which is enqueued
AddDownloadTask(i, d) ==
    /\ fetches[i].pc = "none"
    /\ \A j \in 1 .. i - 1 : fetches[j].pc # "none"
    /\ ~storedFiles[d].exists
    /\ fetches' = [fetches EXCEPT ![i] = [pc |-> "open", dest |-> d,
                                          h |-> "none", status |-> "queued"]]
    /\ UNCHANGED <<partFiles, storedFiles>>

\* fetch: a permit is taken, tmp = dest + ".part" and tmp.open("wb") creates
\* the file or empties the one that is there
FetchOpen(i) ==
    /\ fetches[i].pc = "open"
    /\ Cardinality(HoldsPermit) < DefaultMaxConcurrent
    /\ partFiles' = [partFiles EXCEPT ![fetches[i].dest] =
                         [exists |-> TRUE, bytes |-> {}]]
    /\ fetches' = [fetches EXCEPT ![i].pc = "stream", ![i].h = "part",
                                  ![i].status = "downloading"]
    /\ UNCHANGED storedFiles

\* fetch: f.write(chunk) for the chunks of the body; the bytes go to the
\* file the transfer has open, wherever a rename or an unlink has put it
FetchWrite(i) ==
    /\ fetches[i].pc = "stream"
    /\ LET d == fetches[i].dest IN
       /\ partFiles' = IF fetches[i].h = "part"
                       THEN [partFiles EXCEPT ![d].bytes = @ \cup {i}]
                       ELSE partFiles
       /\ storedFiles' = IF fetches[i].h = "dest"
                         THEN [storedFiles EXCEPT ![d].bytes = @ \cup {i}]
                         ELSE storedFiles
    /\ fetches' = [fetches EXCEPT ![i].pc = "rename"]

\* fetch: the request or the transfer raises; tmp.unlink(missing_ok=True)
FetchFails(i) ==
    /\ fetches[i].pc = "stream"
    /\ LET d == fetches[i].dest IN
       /\ partFiles' = [partFiles EXCEPT ![d] = NoSuchFile]
       /\ fetches' = [j \in FetchIds |->
              IF j = i THEN [fetches[j] EXCEPT !.pc = "finished",
                                               !.status = "failed", !.h = "none"]
              ELSE IF j \in OpenAt(d, "part")
                   THEN [fetches[j] EXCEPT !.h = "gone"]
                   ELSE fetches[j]]
    /\ UNCHANGED storedFiles

\* fetch without a checksum: tmp.rename(dest); with no file at tmp the rename
\* raises FileNotFoundError and the except branch returns a failed result
FetchRename(i) ==
    /\ fetches[i].pc = "rename"
    /\ LET d == fetches[i].dest IN
       IF partFiles[d].exists
       THEN /\ storedFiles' = [storedFiles EXCEPT ![d] = partFiles[d]]
            /\ partFiles' = [partFiles EXCEPT ![d] = NoSuchFile]
            /\ fetches' = [j \in FetchIds |->
                   IF j = i THEN [fetches[j] EXCEPT !.pc = "finished",
                                                    !.status = "done",
                                                    !.h = "none"]
                   ELSE IF j \in OpenAt(d, "part")
                        THEN [fetches[j] EXCEPT !.h = "dest"]
                        ELSE fetches[j]]
       ELSE /\ fetches' = [fetches EXCEPT ![i].pc = "finished",
                                          ![i].status = "failed",
                                          ![i].h = "none"]
            /\ UNCHANGED <<partFiles, storedFiles>>

NextPaths ==
    \/ (\E i \in FetchIds, d \in DestNames : AddDownloadTask(i, d))
           /\ UNCHANGED notPaths
    \/ (\E i \in FetchIds : FetchOpen(i)) /\ UNCHANGED notPaths
    \/ (\E i \in FetchIds : FetchWrite(i)) /\ UNCHANGED notPaths
    \/ (\E i \in FetchIds : FetchFails(i)) /\ UNCHANGED notPaths
    \/ (\E i \in FetchIds : FetchRename(i)) /\ UNCHANGED notPaths

\* ------------------------------------------------------------------------
\* Messaging service restarts
\* ------------------------------------------------------------------------

InitRestart ==
    /\ handlers = [t \in SubTopics |-> 0]
    /\ dispatched = <<>>

\* MqttService.start: client.subscribe(t, self._handle_command) for every
\* command topic; subscribe appends the callback to self.callbacks[t]
StartService ==
    /\ handlers' = [t \in SubTopics |-> handlers[t] + 1]
    /\ callbacks' = callbacks \cup SubTopics
    /\ UNCHANGED <<subscriptions, subpc, resubscribed, nmsg, callback_threads>>
    /\ UNCHANGED dispatched

\* start_components: self.mqtt_service.start(topics), before the Health
\* Monitor is started
ServiceStart ==
    /\ \A t \in SubTopics : handlers[t] = 0
    /\ StartService
    /\ UNCHANGED hcVars

\* _perform_checks for the mqtt component: check_mqtt returns False (the
\* client is not connected); at the threshold recover_mqtt disconnects,
\* sleeps and calls self.mqtt_service.start(topics) again
ProbeMqttFails ==
    /\ \A t \in SubTopics : handlers[t] > 0 /\ handlers[t] <= MaxRestarts
    /\ ProbeFails("mqtt")
    /\ IF Recovers("mqtt", checks["mqtt"].failure_count + 1)
       THEN StartService
       ELSE UNCHANGED <<inVars, rsVars>>

\* the polls of the Health Monitor once the service has been started
ProbeOk(c) ==
    /\ \A t \in SubTopics : handlers[t] > 0
    /\ ProbeHealthy(c)

\* _on_message for a command message: the callbacks of the topic are copied
\* and handle_callbacks calls each entry of the copy
CommandArrives(t) ==
    /\ handlers[t] > 0
    /\ Len(dispatched) < MaxIn
    /\ dispatched' = Append(dispatched, handlers[t])
    /\ UNCHANGED <<handlers, inVars, hcVars>>

NextRestart ==
    \/ ServiceStart /\ UNCHANGED notRestart
    \/ ProbeMqttFails /\ UNCHANGED notRestart
    \/ (\E c \in ComponentNames : ProbeOk(c)) /\ UNCHANGED notHealth
    \/ HealthSleep /\ UNCHANGED notHealth
    \/ (\E t \in SubTopics : CommandArrives(t)) /\ UNCHANGED notRestart

\* the Health Monitor polling the Playback Supervisor, whose playlist plays
\* and ends
NextWatch ==
    \/ (\E c \in {"mqtt", "downloader"} : ProbeHealthy(c)) /\ UNCHANGED notHealth
    \/ ProbePlayer /\ UNCHANGED notHealth
    \/ HealthSleep /\ UNCHANGED notHealth
    \/ (\E th \in plthreads : PlScan(th)) /\ UNCHANGED notPlayer
    \/ (\E th \in plthreads : PlSubmit(th)) /\ UNCHANGED notPlayer
    \/ WorkerPlay /\ UNCHANGED notPlayer
    \/ WorkerAutoNext /\ UNCHANGED notPlayer
    \/ WorkerLaunchOk /\ UNCHANGED notPlayer
    \/ MonitorPoll /\ UNCHANGED notPlayer
    \/ MonitorClear /\ UNCHANGED notPlayer
    \/ (\E p \in PIDs : ProcFinish(p)) /\ UNCHANGED notPlayer

\* ------------------------------------------------------------------------
\* Command topics: build_command_topics
\* ------------------------------------------------------------------------

\* Strings are sequences of characters; the names "设备" and "命令" count as
\* one character each ("D" and "C").
PathChars == {"/", "D", "x"}

\* the strings of at most n characters over the set S
RECURSIVE StringsUpTo(_, _)
StringsUpTo(S, n) ==
    IF n = 0 THEN {<<>>}
    ELSE LET shorter == StringsUpTo(S, n - 1)
         IN  shorter \cup {Append(w, ch) : w \in shorter, ch \in S}

DevicePaths == StringsUpTo(PathChars, MaxPathLen)
ClientIds == {<<>>, <<"x">>, <<"m", "p">>}

\* str.strip("/")
RECURSIVE StripSlashes(_)
StripSlashes(str) ==
    IF str = <<>> THEN str
    ELSE IF Head(str) = "/" THEN StripSlashes(Tail(str))
    ELSE IF str[Len(str)] = "/" THEN StripSlashes(SubSeq(str, 1, Len(str) - 1))
    ELSE str

\* str.split("/"): the pieces between the slashes, empty pieces included
RECURSIVE SplitSlashes(_)
SplitSlashes(str) ==
    IF \A i \in 1 .. Len(str) : str[i] # "/" THEN <<str>>
    ELSE LET i == CHOOSE k \in 1 .. Len(str) :
                      str[k] = "/" /\ \A j \in 1 .. k - 1 : str[j] # "/"
         IN  <<SubSeq(str, 1, i - 1)>> \o SplitSlashes(SubSeq(str, i + 1, Len(str)))

\* "/".join(segments[:i])
RECURSIVE JoinSlashes(_, _)
JoinSlashes(segments, i) ==
    IF i = 0 THEN <<>>
    ELSE IF i = 1 THEN segments[1]
    ELSE JoinSlashes(segments, i - 1) \o <<"/">> \o segments[i]

\* segments = device_path.strip("/").split("/") if device_path else []
Segments(path) == IF path = <<>> THEN <<>> ELSE SplitSlashes(StripSlashes(path))

\* f"{prefix}/命令"
CommandTopic(prefix) == prefix \o <<"/", "C">>

\* f"设备/{client_id}/命令"
IdTopic(id) == CommandTopic(<<"D", "/">> \o id)

\* "设备/命令"
BroadcastTopic == CommandTopic(<<"D">>)

\* for i in range(len(segments) - 1, 0, -1): topics.append(f"{prefix}/命令")
RECURSIVE PrefixTopics(_, _)
PrefixTopics(segments, i) ==
    IF i <= 0 THEN <<>>
    ELSE <<CommandTopic(JoinSlashes(segments, i))>> \o PrefixTopics(segments, i - 1)

KeepsRepeats(list, seen) == list

\* the seen/unique loop: every topic once, at its first occurrence
RECURSIVE Unique(_, _)
Unique(list, seen) ==
    IF list = <<>> THEN <<>>
    ELSE IF Head(list) \in seen THEN Unique(Tail(list), seen)
    ELSE <<Head(list)>> \o Unique(Tail(list), seen \cup {Head(list)})

\* build_command_topics(device_path, client_id)
build_command_topics(path, id) ==
    LET segments == Segments(path)
        listed == <<IdTopic(id)>>
                  \o (IF segments # <<>>
                      THEN <<CommandTopic(path)>>
                           \o PrefixTopics(segments, Len(segments) - 1)
                      ELSE <<>>)
                  \o <<BroadcastTopic>>
    IN  Unique(listed, {})

\* MqttConfig: devicePath "设备/默认", clientId "mpv-player"
InitTopics ==
    /\ device_path = <<"D", "/", "x">>
    /\ client_id = <<"m", "p">>
    /\ topics = <<>>

InitTopicInputs ==
    /\ device_path \in DevicePaths
    /\ client_id \in ClientIds
    /\ topics = <<>>

\* start_components: topics = build_command_topics(devicePath, clientId)
BuildCommandTopics ==
    /\ topics = <<>>
    /\ topics' = build_command_topics(device_path, client_id)
    /\ UNCHANGED <<device_path, client_id>>

NextTopics == BuildCommandTopics /\ UNCHANGED notTopics

\* the state of the other components at construction, the player with
\* loop=True and no playback directory
InitOthers ==
    /\ InitPlayer /\ loop /\ ~videoExists
    /\ InitMqtt /\ InitHeartbeat /\ InitInbound /\ InitDownload /\ InitSync
    /\ InitFileDist /\ InitHealth /\ InitRestart /\ InitPaths

Init ==
    /\ InitPlayer /\ InitMqtt /\ InitHeartbeat /\ InitInbound /\ InitDownload
    /\ InitSync /\ InitFileDist /\ InitHealth /\ InitTopics /\ InitRestart
    /\ InitPaths

\* the Command Channel on its own, the player left as constructed
InitPlayerIdle == Init /\ loop /\ ~videoExists

SpecMqtt == InitPlayerIdle /\ [][NextMqtt]_vars

\* the inbound side of the Command Channel
SpecInbound == InitPlayerIdle /\ [][NextInbound]_vars

\* the heartbeat of MqttService over the Command Channel
SpecHeartbeat == InitPlayerIdle /\ [][NextHeartbeat]_vars

\* the Download Manager on its own
SpecDownload == InitPlayerIdle /\ [][NextDownload]_vars

\* the steps of the _run coroutines: everything but the arrival of a task
DownloadSteps ==
    \/ \E t \in TaskIds : RunBegin(t)
    \/ \E t \in TaskIds : Acquire(t)
    \/ \E t \in TaskIds, c \in Contents : StreamDone(t, c)
    \/ \E t \in TaskIds : StreamPartial(t)
    \/ \E t \in TaskIds, e \in ExcTexts : StreamFails(t, e)
    \/ \E t \in TaskIds, e \in ExcTexts : RenameRaises(t, e)
    \/ \E t \in TaskIds : FetchEnd(t)

\* The asyncio event loop runs a coroutine that is ready: a created task is
\* started, a waiter of the semaphore is woken when a permit is free, and a
\* transfer that has begun ends (each individual transfer terminates).
SpecDownloadFair ==
    InitPlayerIdle /\ [][NextDownload]_vars
        /\ WF_vars(DownloadSteps /\ UNCHANGED notDownload)

\* transfers of file-distribution entries, by destination path
SpecPaths == InitPlayerIdle /\ [][NextPaths]_vars

SpecReenqueue == InitPlayerIdle /\ [][NextReenqueue]_vars

\* the file-distribution handler
SpecFileDist == InitPlayerIdle /\ [][NextFileDist]_vars


\* The callers of one scenario: play(a), setVolume(50), play(b) and nothing
\* else, with a player that can be launched and files that do not end
\* during the scenario.
Script == <<Cmd("_play_internal", "a", 0, 1),
            Cmd("_set_volume_internal", NoFile, 50, 2),
            Cmd("_play_internal", "b", 0, 3)>>

ScriptSubmit == nsub < Len(Script) /\ SubmitCmd(Script[nsub + 1])

NextScript ==
    \/ ScriptSubmit /\ UNCHANGED notPlayer
    \/ PlayerInternal

SpecPlayScript == Init /\ [][NextScript]_vars

SpecPlayer == Init /\ [][NextPlayer]_vars

\* the media queue and the current index
SpecQueue == Init /\ [][NextQueue]_vars

\* a supervisor whose callers only stop and whose media do not end by
\* themselves: after the constructor's set_playlist_dir every submitted
\* command is a stop_play(), and a child exits only when it is terminated
NextStop ==
    \/ StopPlay /\ UNCHANGED notPlayer
    \/ (\E th \in plthreads : PlScan(th)) /\ UNCHANGED notPlayer
    \/ (\E th \in plthreads : PlSubmit(th)) /\ UNCHANGED notPlayer
    \/ WorkerPlay /\ UNCHANGED notPlayer
    \/ WorkerStop /\ UNCHANGED notPlayer
    \/ WorkerAutoNext /\ UNCHANGED notPlayer
    \/ WorkerLaunchOk /\ UNCHANGED notPlayer
    \/ MonitorPoll /\ UNCHANGED notPlayer
    \/ MonitorClear /\ UNCHANGED notPlayer
    \/ (\E t \in BagToSet(term) : TermStart(t)) /\ UNCHANGED notPlayer
    \/ (\E t \in BagToSet(term) : TermWaitDone(t)) /\ UNCHANGED notPlayer
    \/ (\E t \in BagToSet(term) : TermTimeoutKill(t)) /\ UNCHANGED notPlayer
    \/ (\E p \in PIDs : ProcDie(p)) /\ UNCHANGED notPlayer

SpecStop == Init /\ [][NextStop]_vars

\* a supervisor whose callers only play and whose media do not end by
\* themselves: a child exits only when a play replaces it
NextReplace ==
    \/ (\E f \in Files : Play(f)) /\ UNCHANGED notPlayer
    \/ (\E th \in plthreads : PlScan(th)) /\ UNCHANGED notPlayer
    \/ (\E th \in plthreads : PlSubmit(th)) /\ UNCHANGED notPlayer
    \/ WorkerPlay /\ UNCHANGED notPlayer
    \/ WorkerAutoNext /\ UNCHANGED notPlayer
    \/ WorkerLaunchOk /\ UNCHANGED notPlayer
    \/ MonitorPoll /\ UNCHANGED notPlayer
    \/ MonitorClear /\ UNCHANGED notPlayer
    \/ (\E t \in BagToSet(term) : TermStart(t)) /\ UNCHANGED notPlayer
    \/ (\E t \in BagToSet(term) : TermWaitDone(t)) /\ UNCHANGED notPlayer
    \/ (\E t \in BagToSet(term) : TermTimeoutKill(t)) /\ UNCHANGED notPlayer
    \/ (\E p \in PIDs : ProcDie(p)) /\ UNCHANGED notPlayer

SpecReplace == Init /\ [][NextReplace]_vars

\* playlist syncs with the supervisor they drive
InitLooping == Init /\ loop

SpecSync == InitLooping /\ [][NextSync]_vars

SpecSyncPair == InitLooping /\ [][NextSyncPair]_vars

\* the Health Monitor on its own
SpecHealth == InitPlayerIdle /\ [][NextHealth]_vars

\* the messaging service under the Health Monitor's connection recovery
SpecRestart == InitPlayerIdle /\ [][NextRestart]_vars

\* the Health Monitor and the supervisor it watches
SpecWatch == Init /\ [][NextWatch]_vars

\* build_command_topics applied to every device path and client id
InitAnyTopics == InitOthers /\ InitTopicInputs

SpecTopics == InitAnyTopics /\ [][NextTopics]_vars

Next ==
    \/ NextPlayer \/ NextQueue \/ NextStop \/ NextReplace \/ NextMqtt
    \/ NextHeartbeat
    \/ NextInbound \/ NextReenqueue \/ NextSync \/ NextSyncPair \/ NextFileDist
    \/ NextHealth \/ NextWatch \/ NextRestart \/ NextPaths \/ NextTopics

Spec == Init /\ [][Next]_vars

\* ------------------------------------------------------------------------
\* Claims about the Playback Supervisor
\* ------------------------------------------------------------------------

\* C1: in every reachable state at most one child player process launched
\* by the supervisor is alive (running, or signalled and not yet exited).
C1_AtMostOneChildAlive == Cardinality(Alive(procs)) <= 1

\* nothing of the supervisor is in progress: every submitted command has been
\* executed and every background thread has ended
Quiescent ==
    /\ command_queue = <<>>
    /\ wpc = "get"
    /\ mpc = "idle"
    /\ term = EmptyBag
    /\ plthreads = {}

\* C2: after play(a), setVolume(50), play(b) and nothing else, the supervisor
\* ends with the current process handle referring to a running child that
\* plays b at volume 50.
C2_EndsWithBAt50 ==
    (nsub = Len(Script) /\ Quiescent) =>
        /\ volume = 50
        /\ current_process # None
        /\ procs[current_process].st = "running"
        /\ procs[current_process].file = "b"
        /\ procs[current_process].vol = 50

\* C3: control operations are executed by the command worker in the order in
\* which callers submitted them: the submission number of the operation the
\* worker executes never decreases (the play of a setQueue carries the
\* submission number of that setQueue).
C3_SubmissionOrder == [][lastTicket' >= lastTicket]_vars
\* C21: once cleanup() has returned no child launched by the supervisor is
\* alive and the handle is empty, and from then on the command worker
\* executes no command and launches nothing.
C21_NothingAfterCleanup ==
    /\ [](cpc = "done" => Alive(procs) = {} /\ current_process = None)
    /\ [][cpc = "done" => /\ command_queue = <<>>
                             \/ command_queue' # Tail(command_queue)
                          /\ Alive(procs') \subseteq Alive(procs)]_vars

\* C24: the auto-advance the monitor queued on detecting the exit at index i
\* of a queue of n > 0 files plays index i+1 if i+1 < n, else index 0 if
\* looping, else launches nothing: when the worker executes the command it
\* starts the launch of the file that was the successor at the detection, or
\* stays idle if there was none.
C24_AdvanceToSuccessor ==
    [][(/\ wpc = "get" /\ running /\ command_queue # <<>>
        /\ Head(command_queue).cmd = "_auto_play_next"
        /\ command_queue' = Tail(command_queue))
       => IF Head(command_queue).file # NoFile
          THEN wpc' = "launch" /\ wfile' = Head(command_queue).file
          ELSE wpc' = "get"]_vars

\* C25: once a stop() has been executed and no caller has submitted a play,
\* a next or a setQueue since (the callers of this specification only stop,
\* so the last executed command carries a stop's submission number), no
\* child of the supervisor is playing: the monitor's auto-advance does not
\* restart playback.
C25_StoppedStaysStopped ==
    lastTicket >= 1 => \A p \in PIDs : procs[p].st # "running"

\* C27: a set_playlist_dir whose directory is missing or holds no media file
\* leaves the media queue empty, whatever it held before, and queues no play:
\* the scan thread ends with an empty queue and an unchanged command queue.
C27_BadDirEmptiesQueue ==
    [][\A th \in plthreads :
          (th.pc = "scan" /\ th \notin plthreads'
              /\ (~(videoExists /\ th.dir = VideoDir) \/ videoFiles = {}))
          => queue' = <<>> /\ command_queue' = command_queue]_vars

\* C31: the monitor submits an auto-advance only for a child that exited on
\* its own: where no child ends by itself (children exit only because a play
\* replaced them), no auto-advance command is ever queued.
C31_NoAdvanceForReplaced ==
    \A i \in 1 .. Len(command_queue) : command_queue[i].cmd # "_auto_play_next"

\* C30: while the handle refers to a running child, that child is not waited
\* on by a termination waiter, and a step that takes the handle away from it
\* or ends it is the child's own exit, a step of the command worker, or
\* cleanup().
C30_NewChildKept ==
    /\ [](\A t \in BagToSet(term) : t.pc = "wait" => procs[t.h].st # "running")
    /\ [][(current_process # None /\ procs[current_process].st = "running")
            => \/ current_process' = current_process
                  /\ procs'[current_process].st \in {"running", "exited"}
               \/ wpc' # wpc
               \/ command_queue # <<>> /\ command_queue' = Tail(command_queue)
               \/ cpc' # cpc]_vars

\* C16: the media queue is empty or the current index is a position of it.
C16_IndexInQueue ==
    queue = <<>> \/ (0 <= current_file_index /\ current_file_index < Len(queue))

\* C17: the media queue and the current index are written only by the
\* command worker: every step that changes one of them is the worker taking
\* a command from the command queue.
C17_OnlyWorkerWrites ==
    [][(queue' # queue \/ current_file_index' # current_file_index)
          => (wpc = "get" /\ command_queue # <<>>
                          /\ command_queue' = Tail(command_queue))]_vars

\* ------------------------------------------------------------------------
\* Command Channel claims
\* ------------------------------------------------------------------------

\* the messages the flush took off the outbound buffer and sent, in order
FlushedSeq == SelectSeq(sent, LAMBDA m : m \in Range(buffered))

\* C4: the messages published while disconnected are sent on connect exactly
\* once each and in publication order: what the flush has sent, followed by
\* what is still held, is the sequence of buffered messages (no loss, no
\* duplicate, no reordering), and once the flush of a connect is over every
\* message that was buffered when the connect happened has been sent.
C4_FlushPreservesOrder ==
    /\ FlushedSeq \o message_queue = buffered
    /\ netpc # "flush" => Len(FlushedSeq) >= atConnect

\* C4 witness: two messages were buffered while disconnected and the flush of
\* the following connect has sent both, oldest first
C4_TwoFlushed ==
    /\ connected
    /\ netpc = "loop"
    /\ atConnect = 2
    /\ sent = <<1, 2>>
    /\ buffered = <<1, 2>>

\* C5: the k-th consecutive reconnect scheduled since the last successful
\* connection (k = 0, 1, ...) sleeps min(2^k, 60) seconds: the delays scheduled
\* since then are the first entries of 1, 2, 4, 8, 16, and the attempt counter
\* is their number, so a successful connection starts the sequence again.
C5_BackoffDelays ==
    /\ Len(schedDelays) <= 5
    /\ schedDelays = SubSeq(<<1, 2, 4, 8, 16>>, 1, Len(schedDelays))
    /\ \A k \in 1 .. Len(schedDelays) :
           schedDelays[k] = Min(Pow2(k - 1), 60)

\* C5 witness: after a successful connection was lost, five reconnects in a
\* row have been scheduled
C5_FiveScheduled ==
    /\ sent # <<>>
    /\ ~connected
    /\ schedDelays = <<1, 2, 4, 8, 16>>

\* a connection attempt starts: network_loop calls self.client.connect, or
\* loop_forever reconnects
AttemptStep ==
    \/ netpc = "connect" /\ netpc' # "connect" /\ mqtt_running
    \/ link = "down" /\ link' = "wait_connack"

\* C6: once the channel has given up reconnecting (five reconnects scheduled,
\* one more failure), no connection attempt starts until Connect() is called.
C6_NoAttemptAfterGiveUp == [][gaveUp => ~AttemptStep]_vars

\* C32: no accepted message is stranded in the outbound buffer while the
\* connection is up: whenever the channel is connected and neither a publish
\* nor the flush of _on_connect is in progress, the buffer is empty.
C32_NothingStranded ==
    (connected /\ link = "up" /\ netpc # "flush" /\ pubs = {})
        => message_queue = <<>>

\* C26: heartbeats are produced only while the channel is connected: at most
\* one heartbeat loop runs at a time, and no heartbeat was ever buffered,
\* which is what publish does with a message it is given while disconnected.
C26_HeartbeatOnlyConnected ==
    /\ heartbeat_loops <= 1
    /\ \A i \in 1 .. Len(buffered) : buffered[i] \notin heartbeats

\* C15: the outbound buffer is bounded: there is a capacity, smaller than the
\* number of publish calls made, that the number of held messages never
\* exceeds (a publish made when the buffer is full being dropped).
C15_BufferBounded ==
    \E capacity \in 1 .. MaxMsgs - 1 : Len(message_queue) <= capacity

\* C14: while a connection that succeeded is up, every topic given to a
\* subscribe() call that has returned is subscribed at the broker, whether the
\* call was made while connected or while disconnected.
C14_SubscribedAfterConnect ==
    (connected /\ link = "up") =>
        \A t \in callbacks : t \in subscriptions \/ subpc = t

\* C14 witness: both topics were registered before the connection succeeded
\* and _on_connect subscribed them
C14_BothResubscribed ==
    /\ connected
    /\ link = "up"
    /\ subpc = "none"
    /\ resubscribed = SubTopics
    /\ subscriptions = SubTopics

\* C18: whatever the callback threads do (block, raise), the network thread
\* in its loop on a live connection can take the next inbound message, and a
\* step of a callback thread changes nothing of the network thread or the
\* connection.
C18_LoopNotHeldUp ==
    /\ [](netpc = "loop" /\ link = "up" /\ nmsg < MaxIn /\ subscriptions # {}
              => ENABLED (\E t \in SubTopics : OnMessage(t)))
    /\ [][(\E i \in MsgIds : callback_threads[i] = "run"
                              /\ callback_threads'[i] # "run")
              => UNCHANGED mqttVars]_vars
    /\ [](netpc # "callback")

\* C18 witness: the callback of the first message never returns, the one of
\* the second has raised, and the network thread is in its loop
C18_OneBlockedOneRaised ==
    /\ callback_threads[1] = "blocked"
    /\ callback_threads[2] = "logged"
    /\ netpc = "loop"
    /\ link = "up"

\* ------------------------------------------------------------------------
\* Download Manager claims
\* ------------------------------------------------------------------------

\* the supplied checksum cs is not the digest of the bytes c in either case
\* of the hex letters
Mismatch(cs, c) ==
    \/ c = "x" /\ cs \in {"1b"}
    \/ c = "y" /\ cs \in {"0a", "0A"}

Transferring == {t \in TaskIds : tasks[t].pc \in {"stream", "verify"}}

\* occurrences of the entry e in the sequence q
Occurrences(q, e) == Cardinality({i \in 1 .. Len(q) : q[i] = e})

\* the entries a step has added to enqueue_calls
NewCalls == SubSeq(enqueue_calls', Len(enqueue_calls) + 1, Len(enqueue_calls'))

C29_FinishedTaskStays ==
    [][\A t \in TaskIds :
          tasks[t].status \in {"done", "failed"}
          => tasks'[t].status = tasks[t].status
             /\ tasks'[t].reason = tasks[t].reason]_vars

\* C39: every enqueued Download Task eventually reaches done or failed
\* (from some point on every task that has been enqueued has one of the two)
\* and then never changes status again, and a permit is out exactly while a
\* transfer holds it: every finished transfer has released its permit.
C39_EveryTaskSettles ==
    /\ <>[](\A t \in TaskIds :
               tasks[t] # NoTask => tasks[t].status \in {"done", "failed"})
    /\ [][\A t \in TaskIds :
              tasks[t].status \in {"done", "failed"}
                  => tasks'[t].status = tasks[t].status]_vars
    /\ [](semaphore + Cardinality(Transferring) = MaxConcurrent)

\* a task waits for a permit that a failed transfer has just released
C39_WaiterFindsPermit ==
    \E t, u \in TaskIds :
        /\ tasks[t].pc = "wait"
        /\ tasks[u].status = "failed" /\ tasks[u].exc # ""
        /\ semaphore > 0

\* C34: no two in-flight transfers write, rename or delete the same temporary
\* file: a temporary file never holds the bytes of two transfers, a transfer
\* that has written its body finds its temporary file in place with its own
\* bytes, and a stored file holds the bytes of one transfer.
C34_OwnPartFile ==
    /\ \A d \in DestNames :
           /\ Cardinality(partFiles[d].bytes) <= 1
           /\ Cardinality(storedFiles[d].bytes) <= 1
    /\ \A i \in FetchIds :
           fetches[i].pc = "rename"
               => /\ partFiles[fetches[i].dest].exists
                  /\ partFiles[fetches[i].dest].bytes = {i}

\* C38: a Download Task reports status downloading only while it holds a
\* concurrency permit (a task waiting for a permit does not), so the number
\* of tasks with status downloading never exceeds the concurrency bound.
C38_DownloadingHoldsPermit ==
    /\ \A t \in TaskIds :
           tasks[t].status = "downloading" => tasks[t].pc \in {"stream", "verify"}
    /\ Cardinality({t \in TaskIds : tasks[t].status = "downloading"})
           <= MaxConcurrent

\* C12: at most maxConcurrent transfers are under way at any time; a task
\* that found them all taken waits and has written nothing.
C12_TransfersBounded ==
    /\ Cardinality(Transferring) <= MaxConcurrent
    /\ \A t \in TaskIds :
           tasks[t].pc = "wait" => tmpFiles[t] = NoFile /\ tasks[t].got = NoFile

\* C12 witness: every slot is taken by a transfer and a further task waits
C12_ExcessWaits ==
    /\ Cardinality(Transferring) = MaxConcurrent
    /\ \E t \in TaskIds : tasks[t].pc = "wait"

\* ------------------------------------------------------------------------
\* Playlist sync claims
\* ------------------------------------------------------------------------

\* C8: when a playlist sync has finished, the playback directory holds the
\* files it held at the start that are in the target list, together with the
\* target files found in the download directory: (C \cap T) \cup (T \cap D).
C8_DirectoryMatchesTarget ==
    \A s \in SyncIds :
        syncs[s].pc = "done" =>
            videoFiles = (syncs[s].c0 \cap syncs[s].target)
                         \cup (syncs[s].target \cap downloadFiles)

\* C9: once a playlist sync has done its file steps and everything it set off
\* in the supervisor has run, the media queue lists the playback directory's
\* files, and after an immediate-mode sync of a non-empty directory a child
\* is playing.
C9_QueueReloaded ==
    \A s \in SyncIds :
        (syncs[s].pc = "done" /\ syncs[s].steps /\ Quiescent) =>
            /\ queue = SortedFiles(videoFiles)
            /\ (syncs[s].mode = "immediate" /\ videoFiles # {}) =>
                   current_process # None

\* C19: a playlist-distribution message that has been handled to the end
\* (the handler has returned and its thread has finished) has resulted in
\* exactly one publish.
C19_OnePublishPerMessage ==
    \A s \in SyncIds :
        (syncs[s].handler = "done" /\ syncs[s].pc = "done")
            => Len(syncs[s].pub) = 1

\* the steps of a playlist sync, in the order in which they run
SyncSteps == <<"enumerate", "delete", "copy", "reload">>
StepRank(x) == CHOOSE i \in 1 .. Len(SyncSteps) : SyncSteps[i] = x

\* C20: in a playlist sync no step is executed after a step that failed, a
\* sync that ended with a failed step has published "error", and "completed"
\* is published only by a sync none of whose steps failed.
C20_FailureAborts ==
    \A s \in SyncIds :
        /\ \A f \in syncs[s].failed, r \in syncs[s].ran : StepRank(r) <= StepRank(f)
        /\ (syncs[s].pc = "done" /\ syncs[s].failed # {})
               => "error" \in Range(syncs[s].pub)
        /\ "completed" \in Range(syncs[s].pub) => syncs[s].failed = {}

\* what a playlist sync with target T that runs alone leaves of a playback
\* directory holding D: the files of T that were there or could be copied
\* from the download directory
SyncAlone(D, T) == T \cap (D \cup downloadFiles)

\* C33: the playlist syncs of two messages do not interleave their steps:
\* when both have run to their end, the playback directory holds what the
\* two syncs, run one after the other in some order on the directory one of
\* them started from, would have left.
C33_SyncsSerialised ==
    (/\ syncs[1].pc = "done" /\ syncs[1].steps
     /\ syncs[2].pc = "done" /\ syncs[2].steps)
    => \E D \in {syncs[1].c0, syncs[2].c0} :
          videoFiles \in
              {SyncAlone(SyncAlone(D, syncs[1].target), syncs[2].target),
               SyncAlone(SyncAlone(D, syncs[2].target), syncs[1].target)}

\* C37: a playlist-distribution message that has been handled to the end
\* has published "processing" and, after it, a terminal status, "completed"
\* or "error".
C37_TerminalStatus ==
    \A s \in SyncIds :
        (syncs[s].handler = "done" /\ syncs[s].pc = "done")
            => /\ "processing" \in Range(syncs[s].pub)
               /\ syncs[s].pub[Len(syncs[s].pub)] \in {"completed", "error"}

\* ------------------------------------------------------------------------
\* Health Monitor claims
\* ------------------------------------------------------------------------

\* C10: for a component with a recovery hook, a poll invokes the hook exactly
\* when the probe has then failed maxFailures times in a row (counted from the
\* last healthy probe or the last time the threshold was reached): never
\* earlier, never more often.
C10_HookAtThreshold ==
    \A c \in HasRecovery : invoked[c] <=> (streak[c] = MaxFailuresOf(c))

\* C22: when the poll of a component has invoked its recovery hook, the
\* component's failure count is 0 at the end of that poll, whether the hook
\* returned or raised.
C22_CountResetAfterHook ==
    \A c \in ComponentNames : invoked[c] => checks[c].failure_count = 0

\* C23: a poll that leaves a component unhealthy, whether its probe returned
\* False or raised, adds one to the failure count and invokes the recovery
\* hook exactly when the count then reaches the threshold of a component
\* that has a hook.
C23_RaiseCountsAsFalse ==
    [][\A c \in ComponentNames :
          (hpc <= Len(Components) /\ c = Components[hpc] /\ hpc' = hpc + 1
              /\ ~checks'[c].healthy)
          => /\ invoked'[c] <=> Recovers(c, checks[c].failure_count + 1)
             /\ checks'[c].failure_count \in {0, checks[c].failure_count + 1}]_vars

\* C35: the handler list of a topic never contains the same handler twice and
\* an inbound command message invokes the dispatcher exactly once, also
\* after the connection-recovery hook has restarted the messaging service.
C35_OneHandlerPerTopic ==
    /\ \A t \in SubTopics : handlers[t] <= 1
    /\ \A i \in 1 .. Len(dispatched) : dispatched[i] = 1

\* C36: stalled playback is detected and recovered: a health poll of the
\* player that finds the media queue non-empty and no child process counts
\* as a failed probe, and the third such poll in a row invokes the recovery
\* hook.
C36_StallDetected ==
    [][(/\ hpc <= Len(Components) /\ Components[hpc] = "player"
        /\ hpc' = hpc + 1
        /\ queue # <<>> /\ current_process = None)
       => /\ ~checks'["player"].healthy
          /\ checks["player"].failure_count + 1 >= MaxFailuresOf("player")
                 => invoked'["player"]]_vars

\* ------------------------------------------------------------------------
\* Command topics claims
\* ------------------------------------------------------------------------

\* the topics of the proper prefixes of the device path
ProperPrefixTopics ==
    {CommandTopic(JoinSlashes(Segments(device_path), i)) :
         i \in 1 .. Len(Segments(device_path)) - 1}

\* the place a topic has in the order id topic, full-path topic, prefix topics
\* from the longest to the shortest, broadcast topic (its first such place)
TopicRank(t) ==
    LET segs == Segments(device_path)
        n == Len(segs)
    IN  IF t = IdTopic(client_id) THEN 0
        ELSE IF n > 0 /\ t = CommandTopic(device_path) THEN 1
        ELSE IF t \in ProperPrefixTopics
        THEN 1 + n - (CHOOSE i \in 1 .. n - 1 : t = CommandTopic(JoinSlashes(segs, i)))
        ELSE n + 1

\* C11: the derived topic list has no duplicates, lists its topics in the
\* order id topic, full-path topic, prefix topics from the longest to the
\* shortest, holds exactly the id topic, the broadcast topic, the full-path
\* topic and one topic per proper prefix of the path, and ends with the
\* broadcast topic.
C11_TopicList ==
    topics # <<>> =>
        /\ \A i, j \in 1 .. Len(topics) : i # j => topics[i] # topics[j]
        /\ \A i, j \in 1 .. Len(topics) :
               i < j => TopicRank(topics[i]) < TopicRank(topics[j])
        /\ Range(topics) =
               {IdTopic(client_id), BroadcastTopic}
               \cup (IF Segments(device_path) # <<>>
                     THEN {CommandTopic(device_path)} ELSE {})
               \cup ProperPrefixTopics
        /\ topics[Len(topics)] = BroadcastTopic

\* C11 witness: for the path "设备/x/x" and the client id "x" the prefix topic
\* of "设备/x" repeats the id topic and that of "设备" repeats the broadcast
\* topic; the list has three topics
C11_RepeatsDropped ==
    /\ device_path = <<"D", "/", "x", "/", "x">>
    /\ client_id = <<"x">>
    /\ topics = << <<"D", "/", "x", "/", "C">>,
                   <<"D", "/", "x", "/", "x", "/", "C">>,
                   <<"D", "/", "C">> >>

====
